---- MODULE Spec2Model ----
(***************************************************************************)
(* State-machine model of the pKVM FF-A proxy,                             *)
(* arch/arm64/kvm/hyp/nvhe/ffa.c.                                          *)
(*                                                                         *)
(* Every handler that runs under hyp_buffers.lock is one atomic action.    *)
(* The secure side (SPMD) and the stage-2 ownership authority are          *)
(* environments: the status of every SMC reply and every fallible          *)
(* external call (-EFAULT, -ENOMEM, pin failure) is an input of the        *)
(* action, drawn with \E.  The SPMD keeps the descriptors it accepted and  *)
(* hands them back on FFA_MEM_RETRIEVE_REQ.                                *)
(*                                                                         *)
(* WARN_ON(c) with c true has two outcomes, depending on the build: the    *)
(* hypervisor panics (nVHE treats a warning as fatal) or it carries on.    *)
(* Both are modelled: the action either sets `panicked` or commits the     *)
(* state the code reaches by carrying on.  A NULL dereference always       *)
(* panics.                                                                 *)
(***************************************************************************)
EXTENDS Integers, Sequences, FiniteSets, TLC

----------------------------------------------------------------------------
(* Bounds of the model *)

\* number of guest endpoints (KVM_MAX_PVMS - 1 in the code)
NGuests == 1
\* pages of host memory, and of each guest's IPA space
NPages == 4
\* transfer handles the secure side can have live at once
MaxHandles == 1
\* longest constituent list of a descriptor drawn as an input
MaxRanges == 2
\* largest pg_cnt of one constituent drawn as an input
MaxPgCnt == 2
\* secure partitions a FFA_PARTITION_INFO_GET reply can list
MaxParts == 1
\* largest hyp_buff_refcnt the model lets a map reach (the code stops at USHRT_MAX)
MaxRefcnt == 3
\* longest xfer_list the model lets a guest build
MaxXfers == 1
\* physical CPUs that run FF-A calls at the same time
NCpus == 2

----------------------------------------------------------------------------
(* Program constants *)

HOST_FFA_ID == 0
FFA_MAX_REGISTERED_SP_IDS == 8
KVM_FFA_MBOX_NR_PAGES == 1
\* the FF-A translation granule; PAGE_SIZE is the page size of the build
FFA_PAGE_SIZE == 4096
\* FFA_VERSION_1_0 / FFA_VERSION_1_1: major << 16 | minor
FFA_VERSION_1_0 == 65536
FFA_VERSION_1_1 == 65537
\* sizeof(struct ffa_mem_region_addr_range)
SZ_RANGE == 16
\* sizeof(struct ffa_composite_mem_region), header before constituents[]
SZ_COMPOSITE == 16
\* sizeof(struct ffa_mem_region) + sizeof(struct ffa_mem_region_attributes)
SZ_MIN_DESC == 64

KVM_MAX_PVMS == NGuests + 1
Endpoints == 0 .. NGuests
Guests == 1 .. NGuests
Pages == 1 .. NPages
Handles == 1 .. MaxHandles
Cpus == 1 .. NCpus

FFA_MAJOR_VERSION(v) == v \div 65536
FFA_MINOR_VERSION(v) == v % 65536

\* Every FFA_RET_* error and every -Exxx is a negative int; 0 is success.
FFA_RET_SUCCESS == "FFA_RET_SUCCESS"
RetIsError(ret) == ret # FFA_RET_SUCCESS

\* Physical address of page p of endpoint vm (0 = host).  Guest pages live
\* above the host's pages, so no guest PA equals a host PA or an IPA.
PhysOf(vm, p) == vm * (NPages + 1) + p
OwnerOf(pa) == pa \div (NPages + 1)

----------------------------------------------------------------------------
VARIABLES
    hyp_ffa_version,        \* u32 hyp_ffa_version
    has_version_negotiated, \* bool has_version_negotiated
    hyp_buff_refcnt,        \* unsigned short hyp_buff_refcnt
    endp_buffers,           \* endp_buffers[KVM_MAX_PVMS]: tx, rx, tx_ipa, rx_ipa, xfer_list
    num_registered_sp_ids,  \* u8 num_registered_sp_ids
    page_state,             \* stage-2 state of every physical page
    pinned,                 \* physical pages pinned by the hypervisor
    orphans,                \* pages of ffa_translation records that outlived their transfer
    spmd,                   \* the secure side: its version, RXTX mapping and transfers
    call,                   \* the last call: caller, operation, inputs, result registers
    panicked,               \* the hypervisor has panicked (BUG, fatal WARN_ON, NULL dereference)
    hyp_buffers_lock,       \* hyp_buffers.lock: 0 when free, else the CPU holding it
    cpu,                    \* per physical CPU: the call it runs and where in it stands
    PAGE_SIZE               \* the page size the hypervisor was built for: 4K, 16K or 64K

vars == <<hyp_ffa_version, has_version_negotiated, hyp_buff_refcnt, endp_buffers,
          num_registered_sp_ids, page_state, pinned, orphans,
          spmd, call, panicked, hyp_buffers_lock, cpu, PAGE_SIZE>>

\* The program state a handler reads and writes, as one record.
Cur ==
    [ver |-> hyp_ffa_version, neg |-> has_version_negotiated,
     refcnt |-> hyp_buff_refcnt, endp |-> endp_buffers,
     nsp |-> num_registered_sp_ids, pg |-> page_state, pins |-> pinned,
     orphans |-> orphans, spmd |-> spmd]

\* a CPU outside every FF-A call
Idle == [op |-> "none", pc |-> 0]

NoBuffers == [tx |-> 0, rx |-> 0, tx_ipa |-> 0, rx_ipa |-> 0, xfer_list |-> <<>>]

NoXfer == [st |-> "free", ranges |-> <<>>]

\* What a handler leaves behind besides the program state: the result
\* registers res.a0/a2/a3 (a0 = "VERSION": a0 holds hyp_ffa_version), its return value, the
\* SMCs it issued, whether it set an exit code for the run loop, whether a
\* WARN_ON fired, whether it dereferenced NULL, whether it applied an
\* unshare/unpin to a page that was not shared/pinned, whether it returned
\* with its ffa_mem_transfer neither linked nor freed, whether it never
\* returns, and undone: mem_region_idx when ffa_guest_share_ranges went to its
\* unshare label, the number of pages shared before the one that failed
\* (-1 when it did not go there); ext: how far, in bytes from the start of
\* the buffer, the call has written into ffa_desc_buf, which for a share is
\* also how far the memcpy back to reg->constituents reaches in hyp_buffers.tx.
R0 ==
    [a0 |-> "none", a2 |-> "none", ret |-> FFA_RET_SUCCESS, smc |-> <<>>,
     exitreq |-> FALSE, warn |-> FALSE, crash |-> FALSE, stray |-> FALSE,
     leak |-> FALSE, hang |-> FALSE, h |-> 0, a3 |-> 0, undone |-> -1, ext |-> 0]

Begin == Cur @@ R0

NoCall ==
    [op |-> "init", vm |-> 0, handled |-> TRUE, written |-> FALSE, gated |-> FALSE,
     a0 |-> "none", a2 |-> "none", smc |-> <<>>,
     exitreq |-> FALSE, stray |-> FALSE, leak |-> FALSE, h |-> 0, named |-> {},
     arg |-> 0, undone |-> -1, ext |-> 0, fate |-> "returned"]

\* the versions the secure side may answer hyp_ffa_init with: 1.0, 1.1, 1.2
SpmdVersions == {FFA_VERSION_1_0, FFA_VERSION_1_1, FFA_VERSION_1_1 + 1}

\* hyp_ffa_init: the version is min(FFA_VERSION_1_1, the secure side's).
Init ==
    /\ PAGE_SIZE = 4096
    /\ spmd \in {[mapped |-> FALSE, xfers |-> [h \in Handles |-> NoXfer], version |-> v] :
                    v \in SpmdVersions}
    /\ hyp_ffa_version = IF FFA_MINOR_VERSION(spmd.version) < FFA_MINOR_VERSION(FFA_VERSION_1_1)
                         THEN spmd.version ELSE FFA_VERSION_1_1
    /\ has_version_negotiated = FALSE
    /\ hyp_buff_refcnt = 0
    /\ endp_buffers = [e \in Endpoints |-> NoBuffers]
    /\ num_registered_sp_ids = 0
    /\ page_state = [pa \in {PhysOf(e, p) : e \in Endpoints, p \in Pages} |-> "owned"]
    /\ pinned = {}
    /\ orphans = {}
    /\ call = NoCall
    /\ panicked = FALSE
    /\ hyp_buffers_lock = 0
    /\ cpu = [c \in Cpus |-> Idle]

----------------------------------------------------------------------------
(* Result registers and SMC plumbing *)

Smc(r, fn, h) == [r EXCEPT !.smc = Append(@, [fn |-> fn, h |-> h])]

ffa_to_smccc_error(r, ffa_errno) ==
    [r EXCEPT !.a0 = "FFA_ERROR", !.a2 = ffa_errno, !.a3 = 0, !.h = 0]

ffa_to_smccc_res(r, ret) ==
    IF ret = FFA_RET_SUCCESS
    THEN [r EXCEPT !.a0 = "FFA_SUCCESS", !.a2 = "none", !.a3 = 0, !.h = 0]
    ELSE ffa_to_smccc_error(r, ret)

\* Error codes the secure side answers with
SpmdErrors == {"FFA_RET_DENIED"}
SpmdReplies == {"FFA_SUCCESS"} \cup SpmdErrors

----------------------------------------------------------------------------
(* The stage-2 ownership authority (mem_protect.c), as the proxy uses it:   *)
(* a page is "owned" (exclusively, by its endpoint), "shared_hyp" or        *)
(* "shared_ffa".  A share needs the page owned, an unshare needs it shared  *)
(* that way (and, for the hypervisor, not pinned).                          *)

PageIs(r, pa, st) == pa \in DOMAIN r.pg /\ r.pg[pa] = st
SetPage(r, pa, st) == [r EXCEPT !.pg[pa] = st]

\* __pkvm_host_share_hyp / __pkvm_guest_share_hyp
CanShareHyp(r, vm, pa) == OwnerOf(pa) = vm /\ PageIs(r, pa, "owned")
\* __pkvm_host_unshare_hyp / __pkvm_guest_unshare_hyp
CanUnshareHyp(r, vm, pa) ==
    OwnerOf(pa) = vm /\ PageIs(r, pa, "shared_hyp") /\ pa \notin r.pins
\* the unshare as the code calls it under WARN_ON: a failure only warns
WarnUnshareHyp(r, vm, pa) ==
    IF CanUnshareHyp(r, vm, pa) THEN SetPage(r, pa, "owned")
    ELSE [r EXCEPT !.warn = TRUE, !.stray = TRUE]
\* hyp_pin_shared_mem / hyp_pin_shared_guest_page
CanPin(r, pa) == PageIs(r, pa, "shared_hyp")
Pin(r, pa) == [r EXCEPT !.pins = @ \cup {pa}]
\* hyp_unpin_shared_mem / hyp_unpin_shared_guest_page
Unpin(r, pa) ==
    IF pa \in r.pins THEN [r EXCEPT !.pins = @ \ {pa}] ELSE [r EXCEPT !.stray = TRUE]

\* A u32 field of a descriptor (pg_cnt, total_pg_cnt) is written by its
\* two's-complement representative in -2^31 .. 2^31 - 1: -1 stands for
\* 2^32 - 1.  Sums of representatives of small magnitude are the sums modulo
\* 2^32, and two fields are equal exactly when their representatives are.
\* PgSpan(n): the pages a count of n covers, as far as any page exists; a
\* count of 2^31 or more runs past the last page of the last endpoint.
PgSpan(n) == IF n < 0 \/ n > KVM_MAX_PVMS * (NPages + 1) THEN KVM_MAX_PVMS * (NPages + 1) ELSE n

\* __pkvm_host_share_ffa(pfn, n) / __pkvm_guest_share_ffa(vcpu, ipa)
RangePages(pa, n) == {pa + i : i \in 0 .. PgSpan(n) - 1}
CanShareFfa(r, vm, pa, n) ==
    \A q \in RangePages(pa, n) : OwnerOf(q) = vm /\ PageIs(r, q, "owned")
CanUnshareFfa(r, vm, pa, n) ==
    \A q \in RangePages(pa, n) : OwnerOf(q) = vm /\ PageIs(r, q, "shared_ffa")
SetPages(r, ps, st) ==
    [r EXCEPT !.pg = [q \in DOMAIN r.pg |-> IF q \in ps THEN st ELSE r.pg[q]]]

\* Pages marked shared with the secure side
SharedFfa(pg) == {pa \in DOMAIN pg : pg[pa] = "shared_ffa"}

PAGE_ALIGNED(a) == a % PAGE_SIZE = 0
\* hyp_phys_to_pfn, and the guest's IPA -> PA translation of the page at addr
PfnOf(addr) == addr \div PAGE_SIZE
GuestPa(vm, ipa) == PhysOf(vm, PfnOf(ipa))

----------------------------------------------------------------------------
(* The shared hypervisor message boxes *)

USHRT_MAX == 65535

ffa_map_hyp_buffers(r, reply) ==
    IF r.refcnt = USHRT_MAX THEN [r EXCEPT !.ret = "FFA_RET_BUSY"]
    ELSE LET r1 == [r EXCEPT !.refcnt = @ + 1] IN
         IF r1.refcnt > 1 THEN [r1 EXCEPT !.ret = FFA_RET_SUCCESS]
         ELSE LET r2 == Smc(r1, "FFA_FN64_RXTX_MAP", 0) IN
              IF reply = "FFA_SUCCESS"
              THEN [r2 EXCEPT !.ret = FFA_RET_SUCCESS, !.spmd.mapped = TRUE]
              ELSE [r2 EXCEPT !.ret = reply]

\* ffa_unmap_hyp_buffers without the test of the count it decremented
ffa_unmap_hyp_buffers_always(r, reply) ==
    IF r.refcnt = 0 THEN [r EXCEPT !.crash = TRUE]
    ELSE LET r2 == Smc([r EXCEPT !.refcnt = @ - 1], "FFA_RXTX_UNMAP", 0) IN
         IF reply = "FFA_SUCCESS" THEN [r2 EXCEPT !.spmd.mapped = FALSE] ELSE r2

\* The return value is ignored by both callers.
ffa_unmap_hyp_buffers(r, reply) ==
    IF r.refcnt = 0 THEN [r EXCEPT !.crash = TRUE]
    ELSE LET r1 == [r EXCEPT !.refcnt = @ - 1] IN
         IF r1.refcnt # 0 THEN r1
         ELSE LET r2 == Smc(r1, "FFA_RXTX_UNMAP", 0) IN
              IF reply = "FFA_SUCCESS" THEN [r2 EXCEPT !.spmd.mapped = FALSE] ELSE r2

\* fault: the step of the buffer mapping that the ownership authority fails
\* for a reason outside the page's state ("none": no such failure)
ffa_map_host_buffers(r, tx, rx, fault) ==
    LET txp == PfnOf(tx)
        rxp == PfnOf(rx)
        inval(x) == [x EXCEPT !.ret = "FFA_RET_INVALID_PARAMETERS"]
    IN
    IF ~CanShareHyp(r, 0, txp) THEN inval(r)
    ELSE LET r1 == SetPage(r, txp, "shared_hyp") IN
    IF ~CanShareHyp(r1, 0, rxp) THEN inval(SetPage(r1, txp, "owned"))
    ELSE LET r2 == SetPage(r1, rxp, "shared_hyp") IN
    IF fault = "pin_tx" \/ ~CanPin(r2, txp)
    THEN inval(SetPage(SetPage(r2, rxp, "owned"), txp, "owned"))
    ELSE LET r3 == Pin(r2, txp) IN
    IF fault = "pin_rx" \/ ~CanPin(r3, rxp)
    THEN inval(SetPage(SetPage(Unpin(r3, txp), rxp, "owned"), txp, "owned"))
    ELSE [Pin(r3, rxp) EXCEPT !.ret = FFA_RET_SUCCESS]

\* ffa_guest_share_with_cb: -EFAULT and -ENOMEM set the exit code
GuestShareErr(r, err) ==
    [r EXCEPT !.ret = err, !.exitreq = @ \/ err \in {"-EFAULT", "-ENOMEM"}]

\* fault: [step, err], the step failing with err; the labels fall through
\* as in the code: err_unshare_tx, err_unshare_rx, err_unpin_tx.
ffa_map_guest_buffers(r, vm, tx_ipa, rx_ipa, fault) ==
    LET txp == GuestPa(vm, tx_ipa)
        rxp == GuestPa(vm, rx_ipa)
        err_unpin_tx(x) == Unpin(x, txp)
        err_unshare_rx(x) == err_unpin_tx(WarnUnshareHyp(x, vm, rxp))
        err_unshare_tx(x) == err_unshare_rx(WarnUnshareHyp(x, vm, txp))
    IN
    IF fault.step = "share_tx" THEN GuestShareErr(r, fault.err)
    ELSE IF ~CanShareHyp(r, vm, txp) THEN GuestShareErr(r, "-EPERM")
    ELSE LET r1 == SetPage(r, txp, "shared_hyp") IN
    IF fault.step = "share_rx" THEN err_unshare_tx(GuestShareErr(r1, fault.err))
    ELSE IF ~CanShareHyp(r1, vm, rxp) THEN err_unshare_tx(GuestShareErr(r1, "-EPERM"))
    ELSE LET r2 == SetPage(r1, rxp, "shared_hyp") IN
    IF fault.step = "pin_tx" \/ ~CanPin(r2, txp)
    THEN err_unshare_rx([r2 EXCEPT !.ret = "-EINVAL"])
    ELSE LET r3 == Pin(r2, txp) IN
    IF fault.step = "pin_rx" \/ ~CanPin(r3, rxp)
    THEN err_unpin_tx([r3 EXCEPT !.ret = "-EINVAL"])
    ELSE [Pin(r3, rxp) EXCEPT !.ret = FFA_RET_SUCCESS]

\* nreply: the reply to the direct messages, when a partition is registered
kvm_notify_vm_availability(r, vm_handle, nreply) ==
    IF r.nsp = 0 THEN [r EXCEPT !.ret = FFA_RET_SUCCESS]
    ELSE LET r1 == Smc(r, "FFA_MSG_SEND_DIRECT_REQ", vm_handle) IN
         IF nreply = "bad_resp" THEN [r1 EXCEPT !.ret = "FFA_RET_INVALID_PARAMETERS"]
         ELSE IF nreply # "FFA_SUCCESS" THEN [r1 EXCEPT !.ret = nreply]
         ELSE [r1 EXCEPT !.ret = FFA_RET_SUCCESS]

Finish(r) == ffa_to_smccc_res(r, r.ret)

do_ffa_rxtx_map(r, vm_handle, tx, rx, npages, nreply, reply, ureply, fault) ==
    IF npages # (KVM_FFA_MBOX_NR_PAGES * PAGE_SIZE) \div FFA_PAGE_SIZE
    THEN Finish([r EXCEPT !.ret = "FFA_RET_INVALID_PARAMETERS"])
    ELSE IF ~PAGE_ALIGNED(tx) \/ ~PAGE_ALIGNED(rx)
    THEN Finish([r EXCEPT !.ret = "FFA_RET_INVALID_PARAMETERS"])
    ELSE LET r1 == kvm_notify_vm_availability(r, vm_handle, nreply) IN
    IF r1.ret # FFA_RET_SUCCESS THEN Finish(r1)
    ELSE IF r1.endp[vm_handle].tx # 0 THEN Finish([r1 EXCEPT !.ret = "FFA_RET_DENIED"])
    ELSE LET r2 == ffa_map_hyp_buffers(r1, reply) IN
    IF r2.ret # FFA_RET_SUCCESS THEN Finish(r2)
    ELSE LET r3 == IF vm_handle = 0
                   THEN ffa_map_host_buffers(r2, tx, rx, fault.step)
                   ELSE ffa_map_guest_buffers(r2, vm_handle, tx, rx, fault) IN
    IF r3.ret # FFA_RET_SUCCESS
    THEN Finish(ffa_unmap_hyp_buffers(r3, ureply))
    ELSE Finish([r3 EXCEPT !.endp[vm_handle].tx = IF vm_handle = 0 THEN PfnOf(tx)
                                                   ELSE GuestPa(vm_handle, tx),
                           !.endp[vm_handle].rx = IF vm_handle = 0 THEN PfnOf(rx)
                                                   ELSE GuestPa(vm_handle, rx),
                           !.endp[vm_handle].tx_ipa = tx,
                           !.endp[vm_handle].rx_ipa = rx])

\* do_ffa_rxtx_unmap without the test that the caller holds a mapping
do_ffa_rxtx_unmap_unchecked(r, vm_handle, id, reply) ==
    IF id # HOST_FFA_ID THEN Finish([r EXCEPT !.ret = "FFA_RET_INVALID_PARAMETERS"])
    ELSE LET e == r.endp[vm_handle]
             r1 == WarnUnshareHyp(Unpin(r, e.tx), vm_handle,
                                  IF vm_handle = 0 THEN e.tx
                                  ELSE GuestPa(vm_handle, e.tx_ipa))
             r2 == WarnUnshareHyp(Unpin(r1, e.rx), vm_handle,
                                  IF vm_handle = 0 THEN e.rx
                                  ELSE GuestPa(vm_handle, e.rx_ipa))
             r3 == [r2 EXCEPT !.endp[vm_handle].rx = 0, !.endp[vm_handle].tx = 0]
         IN Finish(ffa_unmap_hyp_buffers(r3, reply))

do_ffa_rxtx_unmap(r, vm_handle, id, reply) ==
    IF id # HOST_FFA_ID THEN Finish([r EXCEPT !.ret = "FFA_RET_INVALID_PARAMETERS"])
    ELSE IF r.endp[vm_handle].tx = 0
    THEN Finish([r EXCEPT !.ret = "FFA_RET_INVALID_PARAMETERS"])
    ELSE LET e == r.endp[vm_handle]
             r1 == WarnUnshareHyp(Unpin(r, e.tx), vm_handle,
                                  IF vm_handle = 0 THEN e.tx
                                  ELSE GuestPa(vm_handle, e.tx_ipa))
             r2 == WarnUnshareHyp(Unpin(r1, e.rx), vm_handle,
                                  IF vm_handle = 0 THEN e.rx
                                  ELSE GuestPa(vm_handle, e.rx_ipa))
             r3 == [r2 EXCEPT !.endp[vm_handle].rx = 0, !.endp[vm_handle].tx = 0]
         IN Finish(ffa_unmap_hyp_buffers(r3, reply))

----------------------------------------------------------------------------
(* Sharing and unsharing the constituents of a descriptor.                  *)
(* A constituent is [address, pg_cnt]; addresses are page frame numbers.    *)

RECURSIVE host_share_from(_, _, _, _)
host_share_from(r, ranges, nranges, i) ==
    IF i >= nranges THEN [r |-> r, n |-> i]
    ELSE LET range == ranges[i + 1]
             sz == range.pg_cnt * FFA_PAGE_SIZE
             pfn == range.address
         IN IF ~PAGE_ALIGNED(sz) THEN [r |-> r, n |-> i]
            ELSE IF ~CanShareFfa(r, 0, pfn, sz \div PAGE_SIZE) THEN [r |-> r, n |-> i]
            ELSE host_share_from(
                     SetPages(r, RangePages(pfn, sz \div PAGE_SIZE), "shared_ffa"),
                     ranges, nranges, i + 1)

\* returns the number of ranges shared, and the state
__ffa_host_share_ranges(r, ranges, nranges) == host_share_from(r, ranges, nranges, 0)

RECURSIVE host_unshare_from(_, _, _, _)
host_unshare_from(r, ranges, nranges, i) ==
    IF i >= nranges THEN [r |-> r, n |-> i]
    ELSE LET range == ranges[i + 1]
             sz == range.pg_cnt * FFA_PAGE_SIZE
             pfn == range.address
         IN IF ~PAGE_ALIGNED(sz) THEN [r |-> r, n |-> i]
            ELSE IF ~CanUnshareFfa(r, 0, pfn, sz \div PAGE_SIZE) THEN [r |-> r, n |-> i]
            ELSE host_unshare_from(
                     SetPages(r, RangePages(pfn, sz \div PAGE_SIZE), "owned"),
                     ranges, nranges, i + 1)

__ffa_host_unshare_ranges(r, ranges, nranges) == host_unshare_from(r, ranges, nranges, 0)

ffa_host_share_ranges(r, ranges, nranges) ==
    LET s == __ffa_host_share_ranges(r, ranges, nranges) IN
    IF s.n # nranges
    THEN LET u == __ffa_host_unshare_ranges(s.r, ranges, s.n) IN
         [u.r EXCEPT !.ret = "FFA_RET_DENIED", !.warn = @ \/ u.n # s.n]
    ELSE [s.r EXCEPT !.ret = FFA_RET_SUCCESS]

ffa_host_unshare_ranges(r, ranges, nranges) ==
    LET u == __ffa_host_unshare_ranges(r, ranges, nranges) IN
    IF u.n # nranges
    THEN LET s == __ffa_host_share_ranges(u.r, ranges, u.n) IN
         [s.r EXCEPT !.ret = "FFA_RET_DENIED", !.warn = @ \/ s.n # u.n]
    ELSE [u.r EXCEPT !.ret = FFA_RET_SUCCESS]

\* ffa_find_translation: the index in the list of the first translation of
\* physical address pa, 0 when there is none
ffa_find_translation(translations, pa) ==
    LET hits == {k \in 1 .. Len(translations) : translations[k].pa = pa} IN
    IF hits = {} THEN 0 ELSE CHOOSE k \in hits : \A k2 \in hits : k <= k2

RemoveAt(seq, k) == SubSeq(seq, 1, k - 1) \o SubSeq(seq, k + 1, Len(seq))

\* ffa_guest_unshare_ranges.  An address without a translation is a NULL
\* dereference (after the WARN_ON); so is an entry past the modelled buffer.
RECURSIVE guest_unshare_from(_, _, _, _, _, _)
guest_unshare_from(r, vm, ranges, nranges, tr, i) ==
    IF i >= nranges \/ r.crash THEN [r |-> r, tr |-> tr]
    ELSE LET k == IF i + 1 > Len(ranges) THEN 0
                  ELSE ffa_find_translation(tr.translations, ranges[i + 1].address)
         IN IF k = 0 THEN [r |-> [r EXCEPT !.warn = TRUE, !.crash = TRUE], tr |-> tr]
            ELSE LET t == tr.translations[k]
                     pa == PhysOf(vm, t.ipa)
                     r1 == IF CanUnshareFfa(r, vm, pa, 1) THEN SetPage(r, pa, "owned")
                           ELSE [r EXCEPT !.warn = TRUE, !.stray = TRUE]
                 IN guest_unshare_from(r1, vm, ranges, nranges,
                                       [tr EXCEPT !.translations = RemoveAt(@, k)], i + 1)

\* ffa_guest_unshare_ranges that unshares nothing
ffa_guest_unshare_ranges_none(r, vm, ranges, nranges, tr) == [r |-> r, tr |-> tr]

ffa_guest_unshare_ranges(r, vm, ranges, nranges, tr) ==
    guest_unshare_from(r, vm, ranges, nranges, tr, 0)

\* the guest pages of the ranges, in the order the two loops visit them
RECURSIVE FlatPages(_, _)
FlatPages(ranges, nranges) ==
    IF nranges = 0 THEN <<>>
    ELSE FlatPages(ranges, nranges - 1)
         \o [j \in 1 .. PgSpan(ranges[nranges].pg_cnt) |-> ranges[nranges].address + (j - 1)]

NoFault == [step |-> "none", idx |-> 0, err |-> "none"]

\* ffa_guest_share_ranges over the pages ipas[k+1..]: buf is the scratch
\* region's constituent list so far.  fault names the fallible external call
\* (share of page idx, or allocation of its ffa_translation) that fails.
RECURSIVE guest_share_from(_, _, _, _, _, _, _)
guest_share_from(r, vm, ipas, tr, buf, fault, k) ==
    LET unshare(x) ==
            LET u == ffa_guest_unshare_ranges(x, vm, buf, Len(buf), tr) IN
            [r |-> [u.r EXCEPT !.undone = Len(buf)], tr |-> u.tr, buf |-> buf]
    IN
    IF k >= Len(ipas) THEN [r |-> [r EXCEPT !.ret = FFA_RET_SUCCESS], tr |-> tr, buf |-> buf]
    ELSE LET ipa == ipas[k + 1]
             pa == PhysOf(vm, ipa)
         IN IF fault.step = "share" /\ fault.idx = k THEN unshare(GuestShareErr(r, fault.err))
            ELSE IF ipa \notin Pages THEN unshare(GuestShareErr(r, "-EFAULT"))
            ELSE IF ~CanShareFfa(r, vm, pa, 1) THEN unshare(GuestShareErr(r, "-EPERM"))
            ELSE LET r1 == SetPage(r, pa, "shared_ffa") IN
            IF fault.step = "alloc" /\ fault.idx = k
            THEN unshare(GuestShareErr(SetPage(r1, pa, "owned"), "-ENOMEM"))
            ELSE guest_share_from(r1, vm, ipas,
                                  [tr EXCEPT !.translations = <<[ipa |-> ipa, pa |-> pa]>> \o @],
                                  Append(buf, [address |-> pa, pg_cnt |-> 1]), fault, k + 1)

ffa_guest_share_ranges(r, vm, ranges, nranges, tr, fault) ==
    guest_share_from(r, vm, FlatPages(ranges, nranges), tr, <<>>, fault, 0)

\* u32 pg_cnt += ...: the sum modulo 2^32, on representatives
RECURSIVE SumPgCnt(_, _)
SumPgCnt(cons, nranges) ==
    IF nranges = 0 THEN 0
    ELSE SumPgCnt(cons, nranges - 1) + cons[nranges].pg_cnt

\* d: the composite region at reg, as copied from the caller's TX buffer
is_page_count_valid(d, nranges) == SumPgCnt(d.cons, nranges) = d.total_pg_cnt

----------------------------------------------------------------------------
(* The secure side *)

FreeHandles(r) == {h \in Handles : r.spmd.xfers[h].st = "free"}
MinOf(S) == CHOOSE x \in S : \A y \in S : x <= y

\* the secure side records a descriptor (or its first fragment) under a
\* fresh handle, which it returns
SpmdRecord(r, st, ranges) ==
    LET h == MinOf(FreeHandles(r)) IN
    [r EXCEPT !.spmd.xfers[h] = [st |-> st, ranges |-> ranges], !.h = h]

SpmdFree(r, h) == [r EXCEPT !.spmd.xfers[h] = NoXfer]

\* The reply of the secure side to FFA_MEM_SHARE/LEND(len, fraglen) carrying
\* `sent`.  sreply: "accept" (the op-code the protocol expects: FFA_SUCCESS
\* for a whole descriptor, FFA_MEM_FRAG_RX at offset fraglen for a first
\* fragment; only for a well-formed descriptor and with a handle to give),
\* "rogue" (the other of the two op-codes), "rogue_off" (FFA_MEM_FRAG_RX at
\* another offset), "reject" (FFA_ERROR).
ffa_mem_xfer(r, len, fraglen, sent, wellformed, sreply) ==
    LET r1 == Smc(r, "FFA_MEM_XFER", 0)
        whole == fraglen = len
    IN
    IF sreply = "accept" /\ wellformed /\ FreeHandles(r) # {}
    THEN [SpmdRecord(r1, IF whole THEN "live" ELSE "partial", sent)
            EXCEPT !.a0 = IF whole THEN "FFA_SUCCESS" ELSE "FFA_MEM_FRAG_RX",
                   !.a2 = "none", !.a3 = fraglen]
    ELSE IF sreply = "rogue"
    THEN [r1 EXCEPT !.a0 = IF whole THEN "FFA_MEM_FRAG_RX" ELSE "FFA_SUCCESS",
                    !.a2 = "none", !.a3 = fraglen]
    ELSE IF sreply = "rogue_off" /\ ~whole
    THEN [r1 EXCEPT !.a0 = "FFA_MEM_FRAG_RX", !.a2 = "none", !.a3 = fraglen + SZ_RANGE]
    ELSE [r1 EXCEPT !.a0 = "FFA_ERROR", !.a2 = "FFA_RET_DENIED", !.a3 = 0]

----------------------------------------------------------------------------
(* FFA_MEM_SHARE / FFA_MEM_LEND *)

NoTransfer == [ffa_handle |-> 0, translations |-> <<>>]

TranslationPages(tr) == {tr.translations[k].pa : k \in 1 .. Len(tr.translations)}

\* out: of __do_ffa_mem_xfer.  alloc: a guest's ffa_mem_transfer was
\* allocated; linked: it was added to the xfer_list.
XferOut(r, tr, alloc, linked) ==
    LET r1 == IF r.ret # FFA_RET_SUCCESS THEN ffa_to_smccc_res(r, r.ret) ELSE r IN
    IF ~alloc \/ linked THEN r1
    ELSE IF r.ret # FFA_RET_SUCCESS
    THEN [r1 EXCEPT !.orphans = @ \cup TranslationPages(tr)]
    ELSE [r1 EXCEPT !.orphans = @ \cup TranslationPages(tr), !.leak = TRUE]

Inval(r) == [r EXCEPT !.ret = "FFA_RET_INVALID_PARAMETERS"]

\* The end of __do_ffa_mem_xfer for a guest: x is the run after the SMC.
\* A refusal unshares the first nr_ranges entries of reg->constituents.
xfer_guest_end(x, vm_handle, painted, nr_ranges, tr) ==
    IF x.a0 # "FFA_SUCCESS"
    THEN LET u == ffa_guest_unshare_ranges(x, vm_handle, painted, nr_ranges, tr) IN
         XferOut(u.r, u.tr, TRUE, FALSE)
    ELSE XferOut([x EXCEPT !.endp[vm_handle].xfer_list =
                             <<[tr EXCEPT !.ffa_handle = x.h]>> \o @],
                 tr, TRUE, TRUE)

\* The repainting of the descriptor from the scratch region, and the SMC.
\* gr, tr, buf: what ffa_guest_share_ranges returned; tcnt is
\* temp_reg->addr_range_cnt.  The descriptor grows only when the scratch
\* region has more ranges than reg->addr_range_cnt.
xfer_guest_send(gr, tr, buf, tcnt, vm_handle, d, nr_ranges, sreply) ==
    LET grow == tcnt > d.addr_range_cnt
        extra_sz == IF grow THEN (tcnt - d.addr_range_cnt) * SZ_RANGE ELSE 0
        \* reg->constituents after the memcpy from the scratch region
        painted == buf \o SubSeq(d.cons, tcnt + 1, Len(d.cons))
        n_sent == (d.fraglen + extra_sz - (d.composite_off + SZ_COMPOSITE)) \div SZ_RANGE
        cnt2 == IF grow THEN tcnt ELSE d.addr_range_cnt
    IN xfer_guest_end(ffa_mem_xfer(gr, d.len + extra_sz, d.fraglen + extra_sz,
                                   SubSeq(painted, 1, n_sent),
                                   cnt2 = n_sent /\ n_sent <= Len(painted), sreply),
                      vm_handle, painted, IF grow THEN tcnt ELSE nr_ranges, tr)

\* g as ffa_guest_share_ranges left it, with the reach of its writes: the
\* headers copied to ffa_desc_buf.buf, offset bytes, then the composite
\* header at temp_reg and the entries buf[0 .. mem_region_idx - 1] after it
Painted(g, d) ==
    [g EXCEPT !.r.ext = d.composite_off
                        + (IF Len(g.buf) = 0 /\ g.r.ret # FFA_RET_SUCCESS THEN 0
                           ELSE SZ_COMPOSITE + SZ_RANGE * Len(g.buf))]

xfer_guest_shared(g, vm_handle, d, nr_ranges, sreply) ==
    IF g.r.ret # FFA_RET_SUCCESS THEN XferOut(g.r, g.tr, TRUE, FALSE)
    ELSE xfer_guest_send(g.r, g.tr, g.buf, Len(g.buf), vm_handle, d, nr_ranges, sreply)

\* The end of __do_ffa_mem_xfer for the host: x is the run after the SMC.
xfer_host_end(x, d, nr_ranges) ==
    LET failed == IF d.fraglen # d.len
                  THEN x.a0 # "FFA_MEM_FRAG_RX" \/ x.a3 # d.fraglen
                  ELSE x.a0 # "FFA_SUCCESS"
    IN
    IF failed
    THEN LET u == ffa_host_unshare_ranges(x, d.cons, nr_ranges) IN
         XferOut([u EXCEPT !.ret = FFA_RET_SUCCESS, !.warn = @ \/ u.ret # FFA_RET_SUCCESS],
                 NoTransfer, FALSE, FALSE)
    ELSE XferOut(x, NoTransfer, FALSE, FALSE)

xfer_host_shared(hs, d, nr_ranges, sreply) ==
    IF hs.ret # FFA_RET_SUCCESS THEN XferOut(hs, NoTransfer, FALSE, FALSE)
    ELSE xfer_host_end(ffa_mem_xfer(hs, d.len, d.fraglen, SubSeq(d.cons, 1, nr_ranges),
                                    TRUE, sreply),
                       d, nr_ranges)

\* The checks on the composite region and the sharing of its ranges.
xfer_ranges(r, vm_handle, d, nr_ranges, fault, sreply) ==
    IF vm_handle # 0
    THEN IF ~is_page_count_valid(d, nr_ranges) THEN XferOut(Inval(r), NoTransfer, TRUE, FALSE)
         ELSE IF d.total_pg_cnt < 0 \/ d.total_pg_cnt * SZ_RANGE + d.composite_off > PAGE_SIZE
         THEN XferOut(Inval(r), NoTransfer, TRUE, FALSE)
         ELSE xfer_guest_shared(
                  Painted(ffa_guest_share_ranges(r, vm_handle, d.cons, nr_ranges,
                                                 NoTransfer, fault), d),
                  vm_handle, d, nr_ranges, sreply)
    ELSE xfer_host_shared(ffa_host_share_ranges(r, d.cons, nr_ranges), d, nr_ranges, sreply)

\* __do_ffa_mem_xfer without the test that refuses a guest's fragments
do_ffa_mem_xfer_guest_fragments(r, vm_handle, d, fault, sreply) ==
    IF d.addr_mbz # 0 \/ d.npages_mbz # 0 \/ d.fraglen > d.len
       \/ d.fraglen > KVM_FFA_MBOX_NR_PAGES * PAGE_SIZE
    THEN XferOut(Inval(r), NoTransfer, FALSE, FALSE)
    ELSE IF d.fraglen < SZ_MIN_DESC THEN XferOut(Inval(r), NoTransfer, FALSE, FALSE)
    ELSE IF vm_handle # 0 /\ fault.step = "xfer_alloc"
    THEN XferOut(GuestShareErr(r, "-ENOMEM"), NoTransfer, FALSE, FALSE)
    ELSE IF r.endp[vm_handle].tx = 0 THEN XferOut(Inval(r), NoTransfer, vm_handle # 0, FALSE)
    ELSE IF d.composite_off = 0 \/ d.ep_count # 1
    THEN XferOut(Inval(r), NoTransfer, vm_handle # 0, FALSE)
    ELSE IF d.fraglen < d.composite_off + SZ_COMPOSITE
    THEN XferOut(Inval(r), NoTransfer, vm_handle # 0, FALSE)
    ELSE IF (d.fraglen - (d.composite_off + SZ_COMPOSITE)) % SZ_RANGE # 0
    THEN XferOut(Inval(r), NoTransfer, vm_handle # 0, FALSE)
    ELSE xfer_ranges(r, vm_handle, d,
                     (d.fraglen - (d.composite_off + SZ_COMPOSITE)) \div SZ_RANGE,
                     fault, sreply)

\* d: the arguments and the descriptor in the caller's TX buffer: len,
\* fraglen, addr_mbz, npages_mbz, ep_count, composite_off, total_pg_cnt,
\* addr_range_cnt, and cons, the entries of the buffer from
\* reg->constituents on.  fault: as in ffa_guest_share_ranges, or the
\* allocation of the ffa_mem_transfer ("xfer_alloc").
__do_ffa_mem_xfer(r, vm_handle, d, fault, sreply) ==
    IF d.addr_mbz # 0 \/ d.npages_mbz # 0 \/ d.fraglen > d.len
       \/ d.fraglen > KVM_FFA_MBOX_NR_PAGES * PAGE_SIZE
    THEN XferOut(Inval(r), NoTransfer, FALSE, FALSE)
    ELSE IF d.fraglen < SZ_MIN_DESC THEN XferOut(Inval(r), NoTransfer, FALSE, FALSE)
    ELSE IF vm_handle # 0 /\ d.len # d.fraglen
    THEN XferOut(Inval(r), NoTransfer, FALSE, FALSE)
    ELSE IF vm_handle # 0 /\ fault.step = "xfer_alloc"
    THEN XferOut(GuestShareErr(r, "-ENOMEM"), NoTransfer, FALSE, FALSE)
    ELSE IF r.endp[vm_handle].tx = 0 THEN XferOut(Inval(r), NoTransfer, vm_handle # 0, FALSE)
    ELSE IF d.composite_off = 0 \/ d.ep_count # 1
    THEN XferOut(Inval(r), NoTransfer, vm_handle # 0, FALSE)
    ELSE IF d.fraglen < d.composite_off + SZ_COMPOSITE
    THEN XferOut(Inval(r), NoTransfer, vm_handle # 0, FALSE)
    ELSE IF (d.fraglen - (d.composite_off + SZ_COMPOSITE)) % SZ_RANGE # 0
    THEN XferOut(Inval(r), NoTransfer, vm_handle # 0, FALSE)
    ELSE xfer_ranges(r, vm_handle, d,
                     (d.fraglen - (d.composite_off + SZ_COMPOSITE)) \div SZ_RANGE,
                     fault, sreply)

----------------------------------------------------------------------------
(* FFA_MEM_FRAG_TX *)

\* FFA_MEM_RECLAIM at the secure side: it succeeds only for a handle the
\* secure side holds, and then drops it.
ffa_mem_reclaim(r, handle, creply) ==
    LET r1 == Smc(r, "FFA_MEM_RECLAIM", handle) IN
    IF creply = "FFA_SUCCESS" /\ r.spmd.xfers[handle].st # "free"
    THEN [SpmdFree(r1, handle) EXCEPT !.a0 = "FFA_SUCCESS", !.a2 = "none", !.a3 = 0]
    ELSE [r1 EXCEPT !.a0 = "FFA_ERROR", !.a2 = "FFA_RET_DENIED", !.a3 = 0]

\* FFA_MEM_FRAG_TX at the secure side: a fragment continues a transfer it
\* holds in part; a rejected fragment aborts the transfer there.
ffa_mem_frag_tx(r, handle, ranges, sreply) ==
    LET r1 == Smc(r, "FFA_MEM_FRAG_TX", handle)
        x == r.spmd.xfers[handle]
    IN
    IF x.st = "partial" /\ sreply \in {"FFA_SUCCESS", "FFA_MEM_FRAG_RX"}
    THEN [r1 EXCEPT !.spmd.xfers[handle] =
                        [st |-> IF sreply = "FFA_SUCCESS" THEN "live" ELSE "partial",
                         ranges |-> x.ranges \o ranges],
                    !.a0 = sreply, !.a2 = "none", !.h = handle]
    ELSE IF x.st = "partial"
    THEN [SpmdFree(r1, handle) EXCEPT !.a0 = "FFA_ERROR", !.a2 = "FFA_RET_DENIED"]
    ELSE [r1 EXCEPT !.a0 = "FFA_ERROR", !.a2 = "FFA_RET_DENIED"]

\* do_ffa_mem_frag_tx without the unshare of a fragment the secure side refused
do_ffa_mem_frag_tx_keep(r, vm_handle, f, sreply, creply) ==
    LET out(x) == IF x.ret # FFA_RET_SUCCESS THEN ffa_to_smccc_res(x, x.ret) ELSE x IN
    IF f.fraglen > KVM_FFA_MBOX_NR_PAGES * PAGE_SIZE THEN out(Inval(r))
    ELSE IF f.fraglen % SZ_RANGE # 0 THEN out(Inval(r))
    ELSE IF r.endp[vm_handle].tx = 0 THEN out(Inval(r))
    ELSE
    LET nr_ranges == f.fraglen \div SZ_RANGE
        hs == ffa_host_share_ranges(r, f.cons, nr_ranges)
    IN
    IF hs.ret # FFA_RET_SUCCESS
    THEN LET c == ffa_mem_reclaim(hs, f.handle, creply) IN
         out([c EXCEPT !.warn = @ \/ c.a0 # "FFA_SUCCESS"])
    ELSE out(ffa_mem_frag_tx(hs, f.handle, SubSeq(f.cons, 1, nr_ranges), sreply))

\* f: handle, fraglen, and cons, the entries of the caller's TX buffer
do_ffa_mem_frag_tx(r, vm_handle, f, sreply, creply) ==
    LET out(x) == IF x.ret # FFA_RET_SUCCESS THEN ffa_to_smccc_res(x, x.ret) ELSE x IN
    IF f.fraglen > KVM_FFA_MBOX_NR_PAGES * PAGE_SIZE THEN out(Inval(r))
    ELSE IF f.fraglen % SZ_RANGE # 0 THEN out(Inval(r))
    ELSE IF r.endp[vm_handle].tx = 0 THEN out(Inval(r))
    ELSE
    LET nr_ranges == f.fraglen \div SZ_RANGE
        hs == ffa_host_share_ranges(r, f.cons, nr_ranges)
    IN
    IF hs.ret # FFA_RET_SUCCESS
    THEN LET c == ffa_mem_reclaim(hs, f.handle, creply) IN
         out([c EXCEPT !.warn = @ \/ c.a0 # "FFA_SUCCESS"])
    ELSE
    LET x == ffa_mem_frag_tx(hs, f.handle, SubSeq(f.cons, 1, nr_ranges), sreply) IN
    IF x.a0 # "FFA_SUCCESS" /\ x.a0 # "FFA_MEM_FRAG_RX"
    THEN LET u == ffa_host_unshare_ranges(x, f.cons, nr_ranges) IN
         out([u EXCEPT !.ret = FFA_RET_SUCCESS, !.warn = @ \/ u.ret # FFA_RET_SUCCESS])
    ELSE out(x)

----------------------------------------------------------------------------
(* FFA_MEM_RECLAIM *)

\* ffa_desc_buf.len, PAGE_SIZE * (hyp_ffa_proxy_pages() - 2 * KVM_FFA_MBOX_NR_PAGES)
FFA_DESC_BUF_LEN == 2 * PAGE_SIZE

\* find_transfer_by_handle_locked: index in the list, 0 when there is none
find_transfer_by_handle_locked(ffa_handle, endp) ==
    LET hits == {k \in 1 .. Len(endp.xfer_list) : endp.xfer_list[k].ffa_handle = ffa_handle}
    IN IF hits = {} THEN 0 ELSE MinOf(hits)

\* the first guest, in index order, whose list holds the handle; 0 if none
HostFindGuestTransfer(r, handle) ==
    LET hits == {i \in 1 .. KVM_MAX_PVMS - 1 :
                    find_transfer_by_handle_locked(handle, r.endp[i]) # 0}
    IN IF hits = {} THEN 0 ELSE MinOf(hits)

\* length of the descriptor the secure side holds for a handle
SpmdDescLen(x) == SZ_MIN_DESC + SZ_COMPOSITE + SZ_RANGE * Len(x.ranges)

\* The fragment loop of the reclaim path.  fr is the reply of the secure side
\* to every FFA_MEM_FRAG_RX: [a0, a3].  A reply of length 0 never advances.
RECURSIVE ReclaimFragments(_, _, _, _, _)
ReclaimFragments(r, handle, fragoff, len, fr) ==
    IF fragoff >= len THEN r
    ELSE LET r1 == Smc(r, "FFA_MEM_FRAG_RX", handle) IN
         IF fr.a0 # "FFA_MEM_FRAG_TX"
         THEN [r1 EXCEPT !.ret = "FFA_RET_INVALID_PARAMETERS", !.a0 = fr.a0,
                         !.a2 = "FFA_RET_DENIED"]
         ELSE IF fr.a3 = 0 THEN [r1 EXCEPT !.hang = TRUE]
         ELSE ReclaimFragments([Smc(r1, "FFA_RX_RELEASE", 0)
                                   EXCEPT !.ext = IF fragoff + fr.a3 > @ THEN fragoff + fr.a3
                                                  ELSE @],
                               handle, fragoff + fr.a3, len, fr)

\* the lookup without the refusal of a handle the guest's list does not hold
reclaim_find_unchecked(r, vm_handle, handle) ==
    IF vm_handle # 0
    THEN LET k == find_transfer_by_handle_locked(handle, r.endp[vm_handle]) IN
         [ok |-> TRUE, warn |-> FALSE, owner |-> IF k # 0 THEN vm_handle ELSE 0, tk |-> k]
    ELSE LET owner == HostFindGuestTransfer(r, handle) IN
         [ok |-> TRUE, warn |-> owner # 0, owner |-> owner,
          tk |-> IF owner = 0 THEN 0
                 ELSE find_transfer_by_handle_locked(handle, r.endp[owner])]

\* The lookup at the head of do_ffa_mem_reclaim.  A guest's handle must be
\* in its own list (ok = FALSE otherwise); the host's handle is looked up in
\* every guest's list, and finding it there only warns.  owner, tk: the
\* endpoint whose list holds the transfer and its index there, 0 for none.
reclaim_find(r, vm_handle, handle) ==
    IF vm_handle # 0
    THEN LET k == find_transfer_by_handle_locked(handle, r.endp[vm_handle]) IN
         [ok |-> k # 0, warn |-> FALSE, owner |-> IF k # 0 THEN vm_handle ELSE 0, tk |-> k]
    ELSE LET owner == HostFindGuestTransfer(r, handle) IN
         [ok |-> TRUE, warn |-> owner # 0, owner |-> owner,
          tk |-> IF owner = 0 THEN 0
                 ELSE find_transfer_by_handle_locked(handle, r.endp[owner])]

\* reclaim_end without the test of the secure side's answer to FFA_MEM_RECLAIM
reclaim_end_unconditional(c, vm_handle, x, f) ==
    LET out(y) == IF y.ret # FFA_RET_SUCCESS THEN ffa_to_smccc_res(y, y.ret) ELSE y
        tr == IF f.owner # 0 THEN c.endp[f.owner].xfer_list[f.tk] ELSE NoTransfer
        ug == ffa_guest_unshare_ranges(c, vm_handle, x.ranges, Len(x.ranges), tr)
        uh == ffa_host_unshare_ranges(c, x.ranges, Len(x.ranges))
        u == IF vm_handle # 0 THEN ug.r
             ELSE [uh EXCEPT !.ret = FFA_RET_SUCCESS, !.warn = @ \/ uh.ret # FFA_RET_SUCCESS]
        left == IF vm_handle # 0 THEN ug.tr ELSE tr
    IN
    IF f.owner # 0
    THEN out([u EXCEPT !.endp[f.owner].xfer_list = RemoveAt(@, f.tk),
                       !.orphans = @ \cup TranslationPages(left)])
    ELSE out(u)

\* The end of do_ffa_mem_reclaim: c is the run after FFA_MEM_RECLAIM, x the
\* descriptor reassembled from the secure side's fragments, f the lookup.
reclaim_end(c, vm_handle, x, f) ==
    LET out(y) == IF y.ret # FFA_RET_SUCCESS THEN ffa_to_smccc_res(y, y.ret) ELSE y
        tr == IF f.owner # 0 THEN c.endp[f.owner].xfer_list[f.tk] ELSE NoTransfer
        ug == ffa_guest_unshare_ranges(c, vm_handle, x.ranges, Len(x.ranges), tr)
        uh == ffa_host_unshare_ranges(c, x.ranges, Len(x.ranges))
        u == IF vm_handle # 0 THEN ug.r
             ELSE [uh EXCEPT !.ret = FFA_RET_SUCCESS, !.warn = @ \/ uh.ret # FFA_RET_SUCCESS]
        left == IF vm_handle # 0 THEN ug.tr ELSE tr
    IN
    IF c.a0 # "FFA_SUCCESS" THEN out(c)
    ELSE IF f.owner # 0
    THEN out([u EXCEPT !.endp[f.owner].xfer_list = RemoveAt(@, f.tk),
                       !.orphans = @ \cup TranslationPages(left)])
    ELSE out(u)

\* rr: the reply to FFA_MEM_RETRIEVE_REQ, [a0, len, fraglen, offset]; the
\* secure side answers FFA_MEM_RETRIEVE_RESP only for a transfer it holds
\* whole, and then the reassembled descriptor is the one it recorded.
reclaim_retrieve(r1, vm_handle, handle, x, f, rr, fr, creply) ==
    LET out(y) == IF y.ret # FFA_RET_SUCCESS THEN ffa_to_smccc_res(y, y.ret) ELSE y IN
    IF rr.a0 # "FFA_MEM_RETRIEVE_RESP" \/ x.st # "live"
    THEN IF rr.a0 = "FFA_SUCCESS"
         THEN [r1 EXCEPT !.a0 = "FFA_SUCCESS", !.a2 = "none"]
         ELSE [r1 EXCEPT !.a0 = "FFA_ERROR", !.a2 = "FFA_RET_DENIED"]
    ELSE IF rr.offset > rr.len \/ rr.fraglen > KVM_FFA_MBOX_NR_PAGES * PAGE_SIZE
    THEN out([Smc(r1, "FFA_RX_RELEASE", 0)
                EXCEPT !.a0 = "FFA_MEM_RETRIEVE_RESP", !.ret = "FFA_RET_ABORTED", !.warn = TRUE])
    ELSE IF rr.len > FFA_DESC_BUF_LEN
    THEN out([Smc(r1, "FFA_RX_RELEASE", 0)
                EXCEPT !.a0 = "FFA_MEM_RETRIEVE_RESP", !.ret = "FFA_RET_NO_MEMORY"])
    ELSE
    LET r3 == ReclaimFragments([Smc(r1, "FFA_RX_RELEASE", 0) EXCEPT !.ext = rr.fraglen],
                               handle, rr.fraglen, rr.len, fr) IN
    IF r3.hang \/ r3.ret # FFA_RET_SUCCESS THEN out(r3)
    ELSE reclaim_end(ffa_mem_reclaim(r3, handle, creply), vm_handle, x, f)

do_ffa_mem_reclaim(r, vm_handle, handle, rr, fr, creply) ==
    LET f == reclaim_find(r, vm_handle, handle) IN
    IF ~f.ok THEN ffa_to_smccc_res(Inval(r), "FFA_RET_INVALID_PARAMETERS")
    ELSE reclaim_retrieve(Smc([r EXCEPT !.warn = f.warn], "FFA_FN64_MEM_RETRIEVE_REQ", handle),
                          vm_handle, handle, r.spmd.xfers[handle], f, rr, fr, creply)

----------------------------------------------------------------------------
(* FFA_FEATURES, FFA_VERSION, FFA_PARTITION_INFO_GET *)

UnsupportedCalls ==
    {"FFA_FN64_MEM_RETRIEVE_REQ", "FFA_MEM_RETRIEVE_RESP", "FFA_MEM_RELINQUISH",
     "FFA_MEM_OP_PAUSE", "FFA_MEM_OP_RESUME", "FFA_MEM_FRAG_RX", "FFA_FN64_MEM_DONATE",
     "FFA_MSG_SEND", "FFA_MSG_POLL", "FFA_MSG_WAIT", "FFA_MSG_SEND_DIRECT_RESP",
     "FFA_RXTX_MAP", "FFA_MEM_DONATE", "FFA_MEM_RETRIEVE_REQ"}

ffa_call_supported(func_id) == func_id \notin UnsupportedCalls

\* handled: the value do_ffa_features returns
do_ffa_features(r, id) ==
    IF ~ffa_call_supported(id)
    THEN [r |-> ffa_to_smccc_res(r, "FFA_RET_NOT_SUPPORTED"), handled |-> TRUE]
    ELSE IF id \in {"FFA_MEM_SHARE", "FFA_FN64_MEM_SHARE", "FFA_MEM_LEND", "FFA_FN64_MEM_LEND"}
    THEN [r |-> ffa_to_smccc_res(r, FFA_RET_SUCCESS), handled |-> TRUE]
    ELSE [r |-> r, handled |-> FALSE]

\* idget: the reply to FFA_ID_GET ("host", "other", "error"); feat: the
\* reply to FFA_FEATURES(FFA_FN64_RXTX_MAP), a minimum buffer size in bytes,
\* 0 for an unknown encoding, -1 for an error
hyp_ffa_post_init(idget, feat) ==
    IF idget = "error" THEN "-EOPNOTSUPP"
    ELSE IF idget # "host" THEN "-EINVAL"
    ELSE IF feat = -1 THEN "-EOPNOTSUPP"
    ELSE IF feat \notin {4096, 16384, 65536} THEN "-EINVAL"
    ELSE IF feat > PAGE_SIZE THEN "-EOPNOTSUPP"
    ELSE FFA_RET_SUCCESS

\* do_ffa_version without the early return once a version is negotiated
do_ffa_version_again(r, ffa_req_version, tee, idget, feat) ==
    IF FFA_MAJOR_VERSION(ffa_req_version) # 1
    THEN [r EXCEPT !.a0 = "FFA_RET_NOT_SUPPORTED"]
    ELSE
    LET down == FFA_MINOR_VERSION(ffa_req_version) < FFA_MINOR_VERSION(r.ver)
        r1 == IF down THEN Smc(r, "FFA_VERSION", 0) ELSE r
    IN
    IF down /\ tee = "FFA_RET_NOT_SUPPORTED" THEN [r1 EXCEPT !.a0 = "FFA_RET_NOT_SUPPORTED"]
    ELSE
    LET r2 == IF down THEN [r1 EXCEPT !.ver = ffa_req_version] ELSE r1
        r3 == Smc(Smc(r2, "FFA_ID_GET", 0), "FFA_FEATURES", 0)
    IN
    IF hyp_ffa_post_init(idget, feat) # FFA_RET_SUCCESS
    THEN [r3 EXCEPT !.a0 = "FFA_RET_NOT_SUPPORTED"]
    ELSE [r3 EXCEPT !.neg = TRUE, !.a0 = "VERSION"]

\* tee: the reply of the secure side when asked for the requested version
do_ffa_version(r, ffa_req_version, tee, idget, feat) ==
    IF FFA_MAJOR_VERSION(ffa_req_version) # 1
    THEN [r EXCEPT !.a0 = "FFA_RET_NOT_SUPPORTED"]
    ELSE IF r.neg THEN [r EXCEPT !.a0 = "VERSION"]
    ELSE
    LET down == FFA_MINOR_VERSION(ffa_req_version) < FFA_MINOR_VERSION(r.ver)
        r1 == IF down THEN Smc(r, "FFA_VERSION", 0) ELSE r
    IN
    IF down /\ tee = "FFA_RET_NOT_SUPPORTED" THEN [r1 EXCEPT !.a0 = "FFA_RET_NOT_SUPPORTED"]
    ELSE
    LET r2 == IF down THEN [r1 EXCEPT !.ver = ffa_req_version] ELSE r1
        r3 == Smc(Smc(r2, "FFA_ID_GET", 0), "FFA_FEATURES", 0)
    IN
    IF hyp_ffa_post_init(idget, feat) # FFA_RET_SUCCESS
    THEN [r3 EXCEPT !.a0 = "FFA_RET_NOT_SUPPORTED"]
    ELSE [r3 EXCEPT !.neg = TRUE, !.a0 = "VERSION"]

FFA_1_0_PARTITON_INFO_SZ == 8

\* p: the reply of the secure side, [a0, count, size, avail]: avail of the
\* first min(count, FFA_MAX_REGISTERED_SP_IDS) partitions support VM
\* availability messages
do_ffa_part_get(r, vm_handle, flags, p) ==
    IF r.endp[vm_handle].rx = 0 THEN ffa_to_smccc_res(r, "FFA_RET_BUSY")
    ELSE
    LET r1 == Smc(r, "FFA_PARTITION_INFO_GET", 0) IN
    IF p.a0 # "FFA_SUCCESS" THEN [r1 EXCEPT !.a0 = "FFA_ERROR", !.a2 = "FFA_RET_DENIED"]
    ELSE
    LET r2 == [r1 EXCEPT !.a0 = "FFA_SUCCESS", !.a2 = "none"] IN
    IF p.count = 0 THEN r2
    ELSE IF r.ver > FFA_VERSION_1_0 /\ flags % 2 = 1 THEN r2
    ELSE
    LET partition_sz == IF r.ver > FFA_VERSION_1_0 THEN p.size ELSE FFA_1_0_PARTITON_INFO_SZ
        copy_sz == partition_sz * p.count
    IN
    IF copy_sz > KVM_FFA_MBOX_NR_PAGES * PAGE_SIZE THEN ffa_to_smccc_res(r2, "FFA_RET_ABORTED")
    ELSE IF r.nsp # 0 THEN r2
    ELSE [r2 EXCEPT !.nsp = @ + MinOf({p.avail, FFA_MAX_REGISTERED_SP_IDS})]

----------------------------------------------------------------------------
(* Guest teardown *)

\* kvm_guest_clear_transfer
RECURSIVE kvm_guest_clear_transfer(_, _, _)
kvm_guest_clear_transfer(r, vm, translations) ==
    IF translations = <<>> THEN r
    ELSE LET pa == PhysOf(vm, Head(translations).ipa)
             r1 == IF CanUnshareFfa(r, vm, pa, 1) THEN SetPage(r, pa, "owned")
                   ELSE [r EXCEPT !.warn = TRUE, !.stray = TRUE]
         IN kvm_guest_clear_transfer(r1, vm, Tail(translations))

\* the loop over the xfer_list; nok: how many FFA_MEM_RECLAIM the secure
\* side answers with success before one fails
RECURSIVE ReclaimTransfers(_, _, _)
ReclaimTransfers(r, vm, nok) ==
    IF r.endp[vm].xfer_list = <<>> THEN r
    ELSE LET t == Head(r.endp[vm].xfer_list)
             c == ffa_mem_reclaim(r, t.ffa_handle, IF nok > 0 THEN "FFA_SUCCESS" ELSE "FFA_ERROR")
         IN IF c.a0 # "FFA_SUCCESS" THEN [c EXCEPT !.ret = "-EAGAIN"]
            ELSE ReclaimTransfers(
                     [kvm_guest_clear_transfer(c, vm, t.translations)
                        EXCEPT !.endp[vm].xfer_list = Tail(@)], vm, nok - 1)

kvm_reclaim_ffa_guest_pages(r, vm_handle, nreply, nok) ==
    IF r.endp[vm_handle].tx = 0 /\ r.endp[vm_handle].rx = 0 THEN r
    ELSE
    LET r1 == kvm_notify_vm_availability(r, vm_handle, nreply) IN
    IF r1.ret # FFA_RET_SUCCESS THEN r1
    ELSE
    LET r2 == ReclaimTransfers(r1, vm_handle, nok) IN
    IF r2.ret # FFA_RET_SUCCESS THEN r2
    ELSE
    LET e == r2.endp[vm_handle]
        r3 == IF e.tx # 0
              THEN [WarnUnshareHyp(Unpin(r2, e.tx), vm_handle, GuestPa(vm_handle, e.tx_ipa))
                      EXCEPT !.endp[vm_handle].tx = 0]
              ELSE r2
        r4 == IF e.rx # 0
              THEN [WarnUnshareHyp(Unpin(r3, e.rx), vm_handle, GuestPa(vm_handle, e.rx_ipa))
                      EXCEPT !.endp[vm_handle].rx = 0]
              ELSE r3
    IN r4

----------------------------------------------------------------------------
(* Inputs *)

\* versions a caller asks for: 1.0, 1.1, 1.2, 2.0
ReqVersions == {FFA_VERSION_1_0, FFA_VERSION_1_1, FFA_VERSION_1_1 + 1, 2 * 65536}

\* buffer addresses a caller passes to FFA_RXTX_MAP
TxAddrs == {PAGE_SIZE, PAGE_SIZE + 8}
RxAddrs == {PAGE_SIZE, 2 * PAGE_SIZE}

MapFaults(vm) ==
    {NoFault} \cup {[step |-> st, idx |-> 0, err |-> "-EINVAL"] : st \in {"pin_tx", "pin_rx"}}
    \cup (IF vm = 0 THEN {}
          ELSE {[step |-> st, idx |-> 0, err |-> e] :
                    st \in {"share_tx", "share_rx"}, e \in {"-EFAULT", "-ENOMEM"}})

NotifyReplies(r) == IF r.nsp = 0 THEN {"FFA_SUCCESS"} ELSE {"FFA_SUCCESS", "bad_resp", "FFA_RET_DENIED"}

\* constituents a caller writes into its TX buffer
DescAddrs == 3 .. NPages
DescRanges == {[address |-> a, pg_cnt |-> n] : a \in DescAddrs, n \in 1 .. MaxPgCnt}
RECURSIVE SeqsUpTo(_, _)
SeqsUpTo(S, n) ==
    IF n = 0 THEN {<<>>}
    ELSE LET shorter == SeqsUpTo(S, n - 1) IN
         shorter \cup {Append(q, x) : q \in {q2 \in shorter : Len(q2) = n - 1}, x \in S}
\* the constituent lists drawn: at most MaxRanges ranges, MaxPgCnt pages in all
ConsLists == {c \in SeqsUpTo(DescRanges, MaxRanges) : SumPgCnt(c, Len(c)) <= MaxPgCnt}

\* lists whose first range covers one page of the build exactly
GranuleLists ==
    LET whole == [address |-> 3, pg_cnt |-> PAGE_SIZE \div FFA_PAGE_SIZE] IN
    {<<whole>>, <<whole, [address |-> 4, pg_cnt |-> 1]>>}

\* A well-formed descriptor around a constituent list: one endpoint, the
\* composite region right after the headers, the counts as the list has them.
GoodDesc(cons) ==
    [len |-> SZ_MIN_DESC + SZ_COMPOSITE + SZ_RANGE * Len(cons),
     fraglen |-> SZ_MIN_DESC + SZ_COMPOSITE + SZ_RANGE * Len(cons),
     addr_mbz |-> 0, npages_mbz |-> 0, ep_count |-> 1, composite_off |-> SZ_MIN_DESC,
     cons |-> cons, total_pg_cnt |-> SumPgCnt(cons, Len(cons)), addr_range_cnt |-> Len(cons)]

\* The descriptors drawn.  Around every constituent list: the well-formed
\* descriptor, the first fragment of a longer one, and one whose range count
\* is one more than the ranges it carries.  Around one list, each other field
\* changed in turn: a must-be-zero argument set, two endpoints, no composite
\* offset, an offset past the fragment, a fragment too short for the headers,
\* a range list cut mid-entry, a total page count that is off by one.  And
\* one descriptor whose page counts, 2^32 - 1 and 2, add up to its total
\* page count of 1 only modulo 2^32.  And one that fills the TX buffer, its
\* composite region at the end with a single range of two pages.
Descs ==
    UNION {LET d == GoodDesc(cons) IN
           {d, [d EXCEPT !.len = @ + SZ_RANGE], [d EXCEPT !.addr_range_cnt = @ + 1]} :
           cons \in ConsLists}
    \cup (LET d == GoodDesc(<<[address |-> 3, pg_cnt |-> 1]>>) IN
          {[d EXCEPT !.addr_mbz = 1],
           [d EXCEPT !.npages_mbz = 1],
           [d EXCEPT !.ep_count = 2],
           [d EXCEPT !.composite_off = 0],
           [d EXCEPT !.composite_off = d.fraglen],
           [d EXCEPT !.len = SZ_MIN_DESC - 8, !.fraglen = SZ_MIN_DESC - 8],
           [d EXCEPT !.len = @ + 8, !.fraglen = @ + 8],
           [d EXCEPT !.total_pg_cnt = @ + 1]})
    \cup {GoodDesc(<<[address |-> 3, pg_cnt |-> -1], [address |-> 3, pg_cnt |-> 2]>>)}
    \cup {GoodDesc(c) : c \in GranuleLists}
    \cup {[GoodDesc(<<[address |-> 3, pg_cnt |-> 2]>>)
              EXCEPT !.composite_off = KVM_FFA_MBOX_NR_PAGES * PAGE_SIZE - 2 * SZ_RANGE,
                     !.len = KVM_FFA_MBOX_NR_PAGES * PAGE_SIZE,
                     !.fraglen = KVM_FFA_MBOX_NR_PAGES * PAGE_SIZE]}

XferFaults(vm) ==
    IF vm = 0 THEN {NoFault}
    ELSE {NoFault, [step |-> "xfer_alloc", idx |-> 0, err |-> "-ENOMEM"]}
         \cup {[step |-> "share", idx |-> k, err |-> "-EFAULT"] : k \in 0 .. MaxPgCnt - 1}
         \cup {[step |-> "alloc", idx |-> k, err |-> "-ENOMEM"] : k \in 0 .. MaxPgCnt - 1}

XferReplies == {"accept", "reject", "rogue", "rogue_off"}

\* the pages a descriptor names: those of the constituents inside fraglen
NamedPages(vm, d) ==
    LET room == d.fraglen - (d.composite_off + SZ_COMPOSITE)
        n == IF room < 0 THEN 0 ELSE IF room \div SZ_RANGE > Len(d.cons) THEN Len(d.cons)
             ELSE room \div SZ_RANGE
        \* the host's ranges count FF-A pages, a guest's are walked page by page
        span(c) == IF vm = 0 THEN (c * FFA_PAGE_SIZE) \div PAGE_SIZE ELSE c
    IN UNION {RangePages(PhysOf(vm, d.cons[i].address), span(d.cons[i].pg_cnt)) : i \in 1 .. n}

\* the constituents of a descriptor that lie inside its fragment
RangesInFragment(d) ==
    LET room == d.fraglen - (d.composite_off + SZ_COMPOSITE) IN
    IF room < 0 THEN 0 ELSE IF room \div SZ_RANGE > Len(d.cons) THEN Len(d.cons)
    ELSE room \div SZ_RANGE

\* whether total_pg_cnt differs, as a number below 2^32, from the sum of the
\* pg_cnt of the constituents: the representatives differ, or they agree
\* while the sum passed 2^32
PageCountsDiffer(d) ==
    LET n == RangesInFragment(d)
        big == Cardinality({i \in 1 .. n : d.cons[i].pg_cnt < 0})
    IN SumPgCnt(d.cons, n) # d.total_pg_cnt
       \/ big # (IF d.total_pg_cnt < 0 THEN 1 ELSE 0)

\* what a share or lend request looks like, kept with the call
\* a range of the fragment whose size is not a whole number of pages
MisalignedRange(d) ==
    \E i \in 1 .. RangesInFragment(d) : (d.cons[i].pg_cnt * FFA_PAGE_SIZE) % PAGE_SIZE # 0

\* a share or lend request with a structural error: a must-be-zero argument
\* set, a length below the headers, not exactly one endpoint, a composite
\* offset of zero or past the fragment, a range list that is not a whole
\* number of entries, a range that is not a whole number of pages
Malformed(d) ==
    \/ d.addr_mbz # 0 \/ d.npages_mbz # 0
    \/ d.len < SZ_MIN_DESC
    \/ d.ep_count # 1
    \/ d.composite_off = 0 \/ d.composite_off + SZ_COMPOSITE > d.fraglen
    \/ (d.fraglen - (d.composite_off + SZ_COMPOSITE)) % SZ_RANGE # 0
    \/ MisalignedRange(d)

DescShape(d) ==
    [differ |-> PageCountsDiffer(d), frag |-> d.len # d.fraglen, malformed |-> Malformed(d),
     misaligned |-> MisalignedRange(d)]

\* the same for the ranges of a fragment continuation
FragShape(f) ==
    LET d == [fraglen |-> f.fraglen, composite_off |-> -SZ_COMPOSITE, cons |-> f.cons] IN
    [differ |-> FALSE, frag |-> TRUE,
     malformed |-> f.fraglen % SZ_RANGE # 0 \/ MisalignedRange(d),
     misaligned |-> MisalignedRange(d)]

FragTxArgs ==
    {[handle |-> h, fraglen |-> SZ_RANGE * Len(cons), cons |-> cons] :
        h \in Handles, cons \in ConsLists \cup GranuleLists}
    \cup {[handle |-> h, fraglen |-> SZ_RANGE + 8, cons |-> <<[address |-> 3, pg_cnt |-> 1]>>] :
            h \in Handles}
    \cup {[handle |-> h, fraglen |-> KVM_FFA_MBOX_NR_PAGES * PAGE_SIZE + SZ_RANGE, cons |-> <<>>] :
            h \in Handles}

RetrieveReplies(x) ==
    LET L == SpmdDescLen(x)
        resp == [a0 |-> "FFA_MEM_RETRIEVE_RESP", len |-> L, fraglen |-> L, offset |-> SZ_MIN_DESC]
    IN {resp,
        [resp EXCEPT !.fraglen = SZ_MIN_DESC + SZ_COMPOSITE],
        [resp EXCEPT !.offset = L + SZ_RANGE],
        [resp EXCEPT !.fraglen = KVM_FFA_MBOX_NR_PAGES * PAGE_SIZE + SZ_RANGE],
        [resp EXCEPT !.len = FFA_DESC_BUF_LEN + SZ_RANGE],
        [resp EXCEPT !.a0 = "FFA_ERROR"],
        [resp EXCEPT !.a0 = "FFA_SUCCESS"]}

FragRxReplies ==
    {[a0 |-> "FFA_MEM_FRAG_TX", a3 |-> SZ_RANGE], [a0 |-> "FFA_MEM_FRAG_TX", a3 |-> 0],
     [a0 |-> "FFA_MEM_FRAG_TX", a3 |-> FFA_DESC_BUF_LEN], [a0 |-> "FFA_ERROR", a3 |-> 0]}

PartReplies ==
    {p \in [a0 : {"FFA_SUCCESS"}, count : 0 .. MaxParts,
            size : {FFA_1_0_PARTITON_INFO_SZ, PAGE_SIZE + 8}, avail : 0 .. MaxParts] :
        p.avail <= p.count}
    \cup {[a0 |-> "FFA_ERROR", count |-> 0, size |-> 0, avail |-> 0]}

FeatureIds == {"FFA_MEM_SHARE", "FFA_FN64_MEM_DONATE", "FFA_ID_GET"}

----------------------------------------------------------------------------
(* The handlers, kvm_host_ffa_handler and kvm_guest_ffa_handler *)

\* handled: the call was not forwarded to the secure side.  written:
\* ffa_set_retval ran, which it does for the host whenever the call is
\* handled and was not refused by the negotiation gate, for a guest whenever
\* it is handled and ret >= 0.
MkCall(r, op, vm, handled, written, gated, h, named, arg, fate) ==
    [op |-> op, vm |-> vm, handled |-> handled, written |-> written, gated |-> gated,
     a0 |-> r.a0, a2 |-> r.a2, smc |-> r.smc,
     exitreq |-> r.exitreq, stray |-> r.stray, leak |-> r.leak, h |-> h,
     named |-> named, arg |-> arg, undone |-> r.undone, ext |-> r.ext, fate |-> fate]

\* What becomes of a handler run r: it returns and its writes stand, or the
\* hypervisor panics (a NULL dereference; a WARN_ON, in a build where that is
\* fatal), or it spins forever with the lock held.
Outcome(r, c) ==
    \E made \in {c}, fatal \in BOOLEAN :
        LET fate == IF r.crash \/ (r.warn /\ fatal) THEN "panic"
                    ELSE IF r.hang THEN "hang" ELSE "returned"
            ok == fate = "returned"
        IN
        /\ (fatal => r.warn /\ ~r.crash)
        /\ hyp_ffa_version' = IF ok THEN r.ver ELSE hyp_ffa_version
        /\ has_version_negotiated' = IF ok THEN r.neg ELSE has_version_negotiated
        /\ hyp_buff_refcnt' = IF ok THEN r.refcnt ELSE hyp_buff_refcnt
        /\ endp_buffers' = IF ok THEN r.endp ELSE endp_buffers
        /\ num_registered_sp_ids' = IF ok THEN r.nsp ELSE num_registered_sp_ids
        /\ page_state' = IF ok THEN r.pg ELSE page_state
        /\ pinned' = IF ok THEN r.pins ELSE pinned
        /\ orphans' = IF ok THEN r.orphans ELSE orphans
        /\ spmd' = IF ok THEN r.spmd ELSE spmd
        /\ panicked' = ~ok
        /\ call' = [made EXCEPT !.fate = fate]
        /\ UNCHANGED <<hyp_buffers_lock, cpu, PAGE_SIZE>>

\* kvm_host_ffa_handler: r is the run of the do_ function the call is
\* dispatched to, handled what the handler returns for it.
HostCall(op, r, handled, h, named, arg) ==
    IF ~has_version_negotiated /\ op # "version"
    THEN LET g == ffa_to_smccc_error(Begin, "FFA_RET_INVALID_PARAMETERS") IN
         Outcome(g, MkCall(g, op, 0, TRUE, FALSE, TRUE, h, named, arg, "returned"))
    ELSE \E run \in {r} :
             Outcome(run, MkCall(run, op, 0, handled, handled, FALSE, h, named, arg, "returned"))

\* kvm_guest_ffa_handler: ret is the handler's own ret, which only
\* do_ffa_rxtx_map and __do_ffa_mem_xfer set.
GuestCall(op, vm, r, ret, handled, h, named, arg) ==
    \E run \in {r} :
        Outcome(run, MkCall(run, op, vm, handled, handled /\ ~RetIsError(ret), FALSE, h, named,
                            arg, "returned"))

AnyCall(op, vm, r, ret, handled, h, named, arg) ==
    IF vm = 0 THEN HostCall(op, r, handled, h, named, arg)
    ELSE GuestCall(op, vm, r, ret, handled, h, named, arg)

----------------------------------------------------------------------------
(* Actions: one per FF-A call the handlers dispatch, and the teardown *)

Running == ~panicked

FfaVersion ==
    /\ Running
    /\ \E vm \in Endpoints, req \in ReqVersions, tee \in {"FFA_SUCCESS", "FFA_RET_NOT_SUPPORTED"},
          idget \in {"host", "other", "error"}, feat \in {PAGE_SIZE, 4 * PAGE_SIZE, 0, -1} :
          /\ idget # "host" => feat = PAGE_SIZE
          /\ AnyCall("version", vm, do_ffa_version(Begin, req, tee, idget, feat),
                  FFA_RET_SUCCESS, TRUE, 0, {}, req)

FfaFeatures ==
    /\ Running
    /\ \E vm \in Endpoints, id \in FeatureIds :
          LET f == do_ffa_features(Begin, id) IN
          AnyCall("features", vm, f.r, FFA_RET_SUCCESS, f.handled, 0, {}, 0)

RxtxMap ==
    /\ Running
    /\ hyp_buff_refcnt < MaxRefcnt
    /\ \E vm \in Endpoints, tx \in TxAddrs, rx \in RxAddrs, npages \in {1, 2},
          nreply \in NotifyReplies(Cur), reply \in SpmdReplies, ureply \in SpmdReplies :
          \E fault \in MapFaults(vm) :
          /\ (npages # 1 \/ ~PAGE_ALIGNED(tx)) =>
                /\ nreply = "FFA_SUCCESS" /\ reply = "FFA_SUCCESS" /\ fault = NoFault
                /\ rx = 2 * PAGE_SIZE
          /\ (nreply # "FFA_SUCCESS" \/ reply # "FFA_SUCCESS") => fault = NoFault
          /\ fault = NoFault /\ tx # rx => ureply = "FFA_SUCCESS"
          /\ LET r == do_ffa_rxtx_map(Begin, vm, tx, rx, npages, nreply, reply, ureply, fault)
             IN AnyCall("rxtx_map", vm, r, r.ret, TRUE, 0, {}, 0)

RxtxUnmap ==
    /\ Running
    /\ \E vm \in Endpoints, id \in {HOST_FFA_ID, 1}, reply \in SpmdReplies :
          AnyCall("rxtx_unmap", vm, do_ffa_rxtx_unmap(Begin, vm, id, reply),
                  FFA_RET_SUCCESS, TRUE, 0, {}, 0)

\* FFA_MEM_SHARE and FFA_MEM_LEND run the same code but for the function id
\* forwarded to the secure side.
MemXfer ==
    /\ Running
    /\ \E vm \in Endpoints, d \in Descs, sreply \in XferReplies :
          \E fault \in XferFaults(vm) :
          /\ Len(endp_buffers[vm].xfer_list) < MaxXfers
          /\ fault # NoFault =>
                d = GoodDesc(d.cons) /\ sreply = "reject"
                /\ fault.idx < SumPgCnt(d.cons, Len(d.cons))
          /\ sreply = "rogue_off" => d.len # d.fraglen
          /\ \E r \in {__do_ffa_mem_xfer(Begin, vm, d, fault, sreply)} :
             AnyCall("mem_xfer", vm, r, r.ret, TRUE, r.h, NamedPages(vm, d), DescShape(d))

\* FFA_MEM_FRAG_TX has a case in kvm_host_ffa_handler only; from a guest it
\* takes the default case of kvm_guest_ffa_handler and is forwarded with the
\* guest's client id, and the secure side, which holds no partial transfer
\* of a guest, refuses it.  The proxy reads nothing of a guest's fragment:
\* one fragment, the empty one, is drawn for each handle.
MemFragTx ==
    /\ Running
    /\ \E vm \in Endpoints, f \in FragTxArgs,
          sreply \in {"FFA_SUCCESS", "FFA_MEM_FRAG_RX", "FFA_ERROR"} :
          LET named == NamedPages(vm, [fraglen |-> f.fraglen, composite_off |-> -SZ_COMPOSITE,
                                       cons |-> f.cons])
          IN
          IF vm = 0
          THEN HostCall("mem_frag_tx",
                        do_ffa_mem_frag_tx(Begin, 0, f, sreply,
                                           IF sreply = "FFA_ERROR" THEN "FFA_RET_DENIED"
                                           ELSE "FFA_SUCCESS"), TRUE, f.handle, named,
                        FragShape(f))
          ELSE /\ sreply = "FFA_ERROR" /\ f.fraglen = 0
               /\ IF ffa_call_supported("FFA_MEM_FRAG_TX")
                  THEN GuestCall("mem_frag_tx", vm, Begin, FFA_RET_SUCCESS, FALSE,
                                 f.handle, named, FragShape(f))
                  ELSE GuestCall("mem_frag_tx", vm,
                                 ffa_to_smccc_error(Begin, "FFA_RET_NOT_SUPPORTED"),
                                 FFA_RET_SUCCESS, TRUE, f.handle, named, FragShape(f))

MemReclaim ==
    /\ Running
    /\ \E vm \in Endpoints, handle \in Handles, fr \in FragRxReplies, creply \in SpmdReplies :
          \E rr \in RetrieveReplies(spmd.xfers[handle]) :
              /\ rr.fraglen >= rr.len => fr = [a0 |-> "FFA_ERROR", a3 |-> 0]
              /\ AnyCall("mem_reclaim", vm, do_ffa_mem_reclaim(Begin, vm, handle, rr, fr, creply),
                      FFA_RET_SUCCESS, TRUE, handle, {}, 0)

PartInfoGet ==
    /\ Running
    /\ \E vm \in Endpoints, flags \in {0, 1}, p \in PartReplies :
          AnyCall("part_get", vm, do_ffa_part_get(Begin, vm, flags, p),
                  FFA_RET_SUCCESS, TRUE, 0, {}, 0)

\* The calls without a case of their own: FFA_ID_GET (answered for a guest,
\* forwarded for the host), a call the proxy blocks, a call it lets through.
OtherCall ==
    /\ Running
    /\ \E vm \in Endpoints,
          func_id \in {"FFA_ID_GET", "FFA_MEM_DONATE", "FFA_MSG_SEND_DIRECT_REQ"} :
          IF func_id = "FFA_ID_GET" /\ vm # 0
          THEN AnyCall("id_get", vm, [ffa_to_smccc_res(Begin, FFA_RET_SUCCESS) EXCEPT !.a2 = vm],
                       FFA_RET_SUCCESS, TRUE, 0, {}, 0)
          ELSE IF ffa_call_supported(func_id)
          THEN AnyCall("forwarded", vm, Begin, FFA_RET_SUCCESS, FALSE, 0, {}, 0)
          ELSE AnyCall("blocked", vm, ffa_to_smccc_error(Begin, "FFA_RET_NOT_SUPPORTED"),
                       FFA_RET_SUCCESS, TRUE, 0, {}, 0)

\* kvm_reclaim_ffa_guest_pages, when a guest is torn down; the value it
\* returns is kept with the call
GuestTeardown ==
    /\ Running
    /\ \E vm \in Guests, nreply \in NotifyReplies(Cur), nok \in 0 .. MaxHandles :
          LET r == kvm_reclaim_ffa_guest_pages(Begin, vm, nreply, nok) IN
          Outcome(r, MkCall(r, "teardown", vm, TRUE, FALSE, FALSE, 0, {}, r.ret, "returned"))

Next ==
    \/ FfaVersion
    \/ FfaFeatures
    \/ RxtxMap
    \/ RxtxUnmap
    \/ MemXfer
    \/ MemFragTx
    \/ MemReclaim
    \/ PartInfoGet
    \/ OtherCall
    \/ GuestTeardown

Spec == Init /\ [][Next]_vars

----------------------------------------------------------------------------
(* The mailbox life cycle on its own: negotiation, mapping, unmapping,      *)
(* partition discovery and teardown, from the state hyp_ffa_init leaves.    *)

NextMbox ==
    \/ FfaVersion
    \/ FfaFeatures
    \/ RxtxMap
    \/ RxtxUnmap
    \/ PartInfoGet
    \/ OtherCall
    \/ GuestTeardown

SpecMbox == Init /\ [][NextMbox]_vars

(* The memory transfers on their own, from the state the mailbox life cycle *)
(* reaches once the host and a guest have negotiated version 1.1 and mapped *)
(* their buffers: page 1 is each one's TX buffer, page 2 its RX buffer.     *)

MboxPages == {PhysOf(e, p) : e \in Endpoints, p \in {1, 2}}

MemReady ==
    /\ hyp_ffa_version = FFA_VERSION_1_1
    /\ has_version_negotiated = TRUE
    /\ hyp_buff_refcnt = KVM_MAX_PVMS
    /\ endp_buffers = [e \in Endpoints |->
                         [tx |-> PhysOf(e, 1), rx |-> PhysOf(e, 2),
                          tx_ipa |-> PAGE_SIZE, rx_ipa |-> 2 * PAGE_SIZE, xfer_list |-> <<>>]]
    /\ num_registered_sp_ids = 0
    /\ page_state = [pa \in {PhysOf(e, p) : e \in Endpoints, p \in Pages} |->
                        IF pa \in MboxPages THEN "shared_hyp" ELSE "owned"]
    /\ pinned = MboxPages
    /\ orphans = {}
    /\ spmd = [mapped |-> TRUE, xfers |-> [h \in Handles |-> NoXfer],
               version |-> FFA_VERSION_1_1]
    /\ call = NoCall
    /\ panicked = FALSE
    /\ hyp_buffers_lock = 0
    /\ cpu = [c \in Cpus |-> Idle]

InitMem == PAGE_SIZE = 4096 /\ MemReady

NextMem ==
    \/ MemXfer
    \/ MemFragTx
    \/ MemReclaim

SpecMem == InitMem /\ [][NextMem]_vars

\* The same in a build with 16K pages (CONFIG_ARM64_16K_PAGES): a range of
\* pg_cnt FF-A pages of 4K covers whole pages only when pg_cnt is a multiple
\* of four.
InitGranule == PAGE_SIZE = 4 * FFA_PAGE_SIZE /\ MemReady

SpecGranule == InitGranule /\ [][NextMem]_vars

(* The buffers and the transfers together, from the state after the version *)
(* was negotiated and before any buffer is mapped: every mapping, unmapping *)
(* and teardown, with the transfers that go well, a share or lend of one    *)
(* page in a single fragment that the secure side accepts and a reclaim     *)
(* that it answers in one fragment.                                         *)

InitLife ==
    /\ PAGE_SIZE = 4096
    /\ hyp_ffa_version = FFA_VERSION_1_1
    /\ has_version_negotiated = TRUE
    /\ hyp_buff_refcnt = 0
    /\ endp_buffers = [e \in Endpoints |-> NoBuffers]
    /\ num_registered_sp_ids = 0
    /\ page_state = [pa \in {PhysOf(e, p) : e \in Endpoints, p \in Pages} |-> "owned"]
    /\ pinned = {}
    /\ orphans = {}
    /\ spmd = [mapped |-> FALSE, xfers |-> [h \in Handles |-> NoXfer],
               version |-> FFA_VERSION_1_1]
    /\ call = NoCall
    /\ panicked = FALSE
    /\ hyp_buffers_lock = 0
    /\ cpu = [c \in Cpus |-> Idle]

LifeXfer ==
    /\ Running
    /\ \E vm \in Endpoints :
          LET d == GoodDesc(<<[address |-> 3, pg_cnt |-> 1]>>) IN
          /\ Len(endp_buffers[vm].xfer_list) < MaxXfers
          /\ \E r \in {__do_ffa_mem_xfer(Begin, vm, d, NoFault, "accept")} :
                AnyCall("mem_xfer", vm, r, r.ret, TRUE, r.h, NamedPages(vm, d), DescShape(d))

LifeReclaim ==
    /\ Running
    /\ \E vm \in Endpoints, handle \in Handles :
          LET L == SpmdDescLen(spmd.xfers[handle])
              rr == [a0 |-> "FFA_MEM_RETRIEVE_RESP", len |-> L, fraglen |-> L,
                     offset |-> SZ_MIN_DESC]
          IN AnyCall("mem_reclaim", vm,
                     do_ffa_mem_reclaim(Begin, vm, handle, rr, [a0 |-> "FFA_ERROR", a3 |-> 0],
                                        "FFA_SUCCESS"),
                     FFA_RET_SUCCESS, TRUE, handle, {}, 0)

NextLife ==
    \/ RxtxMap
    \/ RxtxUnmap
    \/ LifeXfer
    \/ LifeReclaim
    \/ GuestTeardown

SpecLife == InitLife /\ [][NextLife]_vars

----------------------------------------------------------------------------
(* Locking.  Each call runs on a CPU, step by step; other CPUs run their    *)
(* calls in between.  A call is written as the control-flow graph of its    *)
(* function, cut at the places where it takes or drops hyp_buffers.lock and *)
(* where it touches what the lock protects.  A step is                      *)
(*   kind: "lock" (hyp_spin_lock), "unlock" (hyp_spin_unlock), "access" (it *)
(*         reads or writes res), "local" (it touches none of these);        *)
(*   res:  "mbox" (hyp_buffers.tx/rx and ffa_desc_buf), "endp" (an          *)
(*         endp_buffers[] entry), "xfer" (an xfer_list or a transfer's      *)
(*         translations), "refcnt" (hyp_buff_refcnt), "sp_ids", "none";     *)
(*   next: the steps control can go to from it, 0 for the return.           *)

St(kind, res, next) == [kind |-> kind, res |-> res, next |-> next]

\* do_ffa_rxtx_map: argument checks; kvm_notify_vm_availability; lock; the
\* tx test; ffa_map_hyp_buffers; ffa_map_host/guest_buffers; the stores to
\* endp_buffers; err_unmap; out_unlock; out
do_ffa_rxtx_map_steps ==
    <<St("local", "none", {2, 10}), St("local", "sp_ids", {3, 10}), St("lock", "none", {4}),
      St("access", "endp", {5, 9}), St("access", "refcnt", {6, 9}),
      St("local", "none", {7, 8}), St("access", "endp", {9}), St("access", "refcnt", {9}),
      St("unlock", "none", {10}), St("local", "none", {0})>>

\* do_ffa_rxtx_unmap with the lock not taken
do_ffa_rxtx_unmap_steps_unlocked ==
    <<St("local", "none", {2, 7}), St("local", "none", {3}), St("access", "endp", {4, 6}),
      St("access", "endp", {5}), St("access", "refcnt", {6}),
      St("unlock", "none", {7}), St("local", "none", {0})>>

\* do_ffa_rxtx_unmap: id check; lock; the tx test; unpin and unshare of the
\* endpoint's buffers and the clearing of its entry; ffa_unmap_hyp_buffers;
\* out_unlock; out
do_ffa_rxtx_unmap_steps ==
    <<St("local", "none", {2, 7}), St("lock", "none", {3}), St("access", "endp", {4, 6}),
      St("access", "endp", {5}), St("access", "refcnt", {6}),
      St("unlock", "none", {7}), St("local", "none", {0})>>

\* __do_ffa_mem_xfer: argument checks and ffa_alloc; lock; the tx test; the
\* copy into hyp_buffers.tx and the descriptor checks; sharing the ranges
\* (translations, ffa_desc_buf) and the SMC; list_add; err_unshare;
\* out_unlock; out
do_ffa_mem_xfer_steps ==
    <<St("local", "none", {2, 9}), St("lock", "none", {3}), St("access", "endp", {4, 8}),
      St("access", "mbox", {5, 8}), St("access", "xfer", {6, 7, 8}),
      St("access", "xfer", {8}), St("access", "xfer", {8}),
      St("unlock", "none", {9}), St("local", "none", {0})>>

\* do_ffa_mem_frag_tx: fraglen checks; lock; the tx test; the copy into
\* hyp_buffers.tx; sharing, the SMCs and the unsharing; out_unlock; out
do_ffa_mem_frag_tx_steps ==
    <<St("local", "none", {2, 7}), St("lock", "none", {3}), St("access", "endp", {4, 6}),
      St("access", "mbox", {5}), St("access", "mbox", {6}),
      St("unlock", "none", {7}), St("local", "none", {0})>>

\* do_ffa_mem_reclaim: PACK_HANDLE; lock; the search of the transfer lists;
\* the retrieve request and the reassembly from hyp_buffers.rx into
\* ffa_desc_buf; the reclaim SMC and the unsharing; list_del; out_unlock;
\* the result
do_ffa_mem_reclaim_steps ==
    <<St("local", "none", {2}), St("lock", "none", {3}), St("access", "xfer", {4, 7}),
      St("access", "mbox", {5, 7}), St("access", "xfer", {6, 7}),
      St("access", "xfer", {7}), St("unlock", "none", {8}), St("local", "none", {0})>>

\* do_ffa_part_get: lock; the rx test; the SMC and the size checks; the
\* memcpy from hyp_buffers.rx; the test of num_registered_sp_ids and the
\* scan of hyp_buffers.rx into sp_ids; out_unlock
do_ffa_part_get_steps ==
    <<St("lock", "none", {2}), St("access", "endp", {3, 6}), St("local", "none", {4, 6}),
      St("access", "mbox", {5, 6}), St("access", "sp_ids", {6}), St("unlock", "none", {0})>>

\* kvm_reclaim_ffa_guest_pages: the handle; lock; the tx/rx test;
\* kvm_notify_vm_availability; the walk of the xfer_list; the clearing of
\* tx and rx; unlock; return
kvm_reclaim_ffa_guest_pages_steps ==
    <<St("local", "none", {2, 0}), St("lock", "none", {3}), St("access", "endp", {4, 7}),
      St("local", "sp_ids", {5, 7}), St("access", "xfer", {6, 7}),
      St("access", "endp", {7}), St("unlock", "none", {8}), St("local", "none", {0})>>

\* do_ffa_version, do_ffa_features and the calls that are forwarded or
\* refused touch nothing the lock protects
other_call_steps == <<St("local", "none", {0})>>

LockedOps == {"rxtx_map", "rxtx_unmap", "mem_xfer", "mem_frag_tx", "mem_reclaim",
              "part_get", "teardown", "other"}

StepsOf(op) ==
    CASE op = "rxtx_map" -> do_ffa_rxtx_map_steps
      [] op = "rxtx_unmap" -> do_ffa_rxtx_unmap_steps
      [] op = "mem_xfer" -> do_ffa_mem_xfer_steps
      [] op = "mem_frag_tx" -> do_ffa_mem_frag_tx_steps
      [] op = "mem_reclaim" -> do_ffa_mem_reclaim_steps
      [] op = "part_get" -> do_ffa_part_get_steps
      [] op = "teardown" -> kvm_reclaim_ffa_guest_pages_steps
      [] OTHER -> other_call_steps

\* the step CPU c is about to run
AtStep(c) == StepsOf(cpu[c].op)[cpu[c].pc]
InCall(c) == cpu[c].pc # 0
Goto(c, n) == cpu' = [cpu EXCEPT ![c] = IF n = 0 THEN Idle ELSE [@ EXCEPT !.pc = n]]

ProgramState == <<hyp_ffa_version, has_version_negotiated, hyp_buff_refcnt, endp_buffers,
                  num_registered_sp_ids, page_state, pinned, orphans, spmd, call, panicked,
                  PAGE_SIZE>>

\* a CPU enters a handler
CpuCall ==
    \E c \in Cpus, op \in LockedOps :
        /\ ~InCall(c)
        /\ cpu' = [cpu EXCEPT ![c] = [op |-> op, pc |-> 1]]
        /\ UNCHANGED <<hyp_buffers_lock, ProgramState>>

\* hyp_spin_lock(&hyp_buffers.lock): spins until the lock is free
CpuLock ==
    \E c \in Cpus :
        /\ InCall(c) /\ AtStep(c).kind = "lock"
        /\ hyp_buffers_lock = 0
        /\ hyp_buffers_lock' = c
        /\ \E n \in AtStep(c).next : Goto(c, n)
        /\ UNCHANGED ProgramState

\* hyp_spin_unlock(&hyp_buffers.lock)
CpuUnlock ==
    \E c \in Cpus :
        /\ InCall(c) /\ AtStep(c).kind = "unlock"
        /\ hyp_buffers_lock' = 0
        /\ \E n \in AtStep(c).next : Goto(c, n)
        /\ UNCHANGED ProgramState

\* a step that reads or writes what the lock protects
CpuAccess ==
    \E c \in Cpus :
        /\ InCall(c) /\ AtStep(c).kind = "access"
        /\ \E n \in AtStep(c).next : Goto(c, n)
        /\ UNCHANGED <<hyp_buffers_lock, ProgramState>>

\* any other step
CpuLocal ==
    \E c \in Cpus :
        /\ InCall(c) /\ AtStep(c).kind = "local"
        /\ \E n \in AtStep(c).next : Goto(c, n)
        /\ UNCHANGED <<hyp_buffers_lock, ProgramState>>

NextLock ==
    \/ CpuCall
    \/ CpuLock
    \/ CpuUnlock
    \/ CpuAccess
    \/ CpuLocal

SpecLock == Init /\ [][NextLock]_vars

----------------------------------------------------------------------------
(* Properties *)

\* the function ids of the SMCs the last call issued
SmcNames(c) == {c.smc[i].fn : i \in 1 .. Len(c.smc)}
\* the pages a constituent list covers
PagesOfRanges(ranges) ==
    UNION {RangePages(ranges[i].address, ranges[i].pg_cnt) : i \in 1 .. Len(ranges)}
\* the handles in an endpoint's transfer list
HandlesOf(e) == {e.xfer_list[k].ffa_handle : k \in 1 .. Len(e.xfer_list)}
\* some guest's transfer list holds the handle
GuestHolds(h) == \E g \in Guests : h \in HandlesOf(endp_buffers[g])
\* endpoint vm has a transfer under handle h that the secure side still holds
HoldsLive(vm, h) ==
    /\ spmd.xfers[h].st = "live"
    /\ IF vm = 0 THEN ~GuestHolds(h)
       ELSE \E k \in 1 .. Len(endp_buffers[vm].xfer_list) :
               /\ endp_buffers[vm].xfer_list[k].ffa_handle = h
               /\ TranslationPages(endp_buffers[vm].xfer_list[k])
                      = PagesOfRanges(spmd.xfers[h].ranges)

\* C1: every share or lend call that returns success grows the set of pages
\* shared with the secure side by exactly the pages its descriptor names,
\* and every one that returns an error leaves that set as it was.
C1_ShareAllOrNothing ==
    [][(call'.op = "mem_xfer" /\ call'.fate = "returned") =>
           /\ call'.a0 = "FFA_SUCCESS" =>
                  SharedFfa(page_state') = SharedFfa(page_state) \cup call'.named
           /\ call'.a0 = "FFA_ERROR" => SharedFfa(page_state') = SharedFfa(page_state)]_vars

\* a guest share that returned an error, was refused by the secure side, and
\* left a page of its descriptor shared with no transfer holding it
C1_PartialShareAfterError ==
    /\ call.op = "mem_xfer" /\ call.vm # 0 /\ call.fate = "returned"
    /\ call.a0 = "FFA_ERROR" /\ "FFA_MEM_XFER" \in SmcNames(call)
    /\ call.named \cap SharedFfa(page_state) # {}
    /\ endp_buffers[call.vm].xfer_list = <<>>
    /\ \A h \in Handles : spmd.xfers[h].st = "free"

\* C2: a reclaim call that returns success for a transfer its caller shared
\* and the secure side still holds removes the transfer at the secure side
\* and from the caller's list, leaves no translation of it behind, and
\* returns every page it covered to its owner.
C2_ReclaimInvertsShare ==
    [][(call'.op = "mem_reclaim" /\ call'.fate = "returned" /\ call'.a0 = "FFA_SUCCESS"
        /\ HoldsLive(call'.vm, call'.h)) =>
           /\ spmd'.xfers[call'.h].st = "free"
           /\ call'.h \notin HandlesOf(endp_buffers'[call'.vm])
           /\ orphans' = orphans
           /\ SharedFfa(page_state')
                  = SharedFfa(page_state) \ PagesOfRanges(spmd.xfers[call'.h].ranges)
           /\ \A pa \in PagesOfRanges(spmd.xfers[call'.h].ranges) :
                  page_state'[pa] = "owned"]_vars

C4_HostNeverReclaimsGuestTransfer ==
    [][(call'.vm = 0 /\ call'.op \in {"mem_reclaim", "mem_frag_tx"}
        /\ call'.fate = "returned" /\ GuestHolds(call'.h)) =>
           /\ \A i \in 1 .. Len(call'.smc) :
                  call'.smc[i] # [fn |-> "FFA_MEM_RECLAIM", h |-> call'.h]
           /\ \A g \in Guests : endp_buffers'[g].xfer_list = endp_buffers[g].xfer_list
           /\ spmd'.xfers[call'.h] = spmd.xfers[call'.h]]_vars

\* C5: the reference count of the hypervisor's buffer pair is the number of
\* endpoints whose buffers are mapped.
C5_RefcountCountsMapped ==
    hyp_buff_refcnt = Cardinality({e \in Endpoints : endp_buffers[e].tx # 0})

\* C6: an unmap by an endpoint without a mapping and a map by an endpoint
\* with one are refused with an error; the buffer table, the reference
\* count and the share and pin state of every page stay as they were, and
\* neither FFA_RXTX_MAP nor FFA_RXTX_UNMAP goes to the secure side.
C6_MapUnmapRejection ==
    [][((call'.op = "rxtx_unmap" /\ endp_buffers[call'.vm].tx = 0)
        \/ (call'.op = "rxtx_map" /\ endp_buffers[call'.vm].tx # 0)) =>
           /\ call'.fate = "returned" /\ call'.a0 = "FFA_ERROR"
           /\ endp_buffers' = endp_buffers /\ hyp_buff_refcnt' = hyp_buff_refcnt
           /\ page_state' = page_state /\ pinned' = pinned
           /\ SmcNames(call') \cap {"FFA_FN64_RXTX_MAP", "FFA_RXTX_UNMAP"} = {}]_vars

\* a mapped endpoint asked to map again and was denied without an SMC
C6_SecondMapDenied ==
    /\ call.op = "rxtx_map" /\ call.fate = "returned" /\ ~call.gated
    /\ call.a2 = "FFA_RET_DENIED" /\ call.smc = <<>>
    /\ endp_buffers[call.vm].tx # 0

\* C7 as written: once negotiated, every later FFA_VERSION call, whatever
\* version it asks for, returns the negotiated version.
C7_AnyRequestReturnsVersion ==
    [][(has_version_negotiated /\ call'.op = "version") =>
           call'.a0 = "VERSION" /\ call'.written]_vars

\* C7: once negotiated, the flag and the stored version never change, and
\* every later FFA_VERSION call that asks for a version of major number 1,
\* from any endpoint, returns the stored version.
C7_SingleShot ==
    [][has_version_negotiated =>
           /\ has_version_negotiated' /\ hyp_ffa_version' = hyp_ffa_version
           /\ (call'.op = "version" /\ FFA_MAJOR_VERSION(call'.arg) = 1) =>
                  call'.a0 = "VERSION" /\ call'.written /\ call'.smc = <<>>]_vars

\* a later call asked for another version and got the negotiated one
C7_LaterCallSameVersion ==
    /\ has_version_negotiated /\ call.op = "version" /\ call.a0 = "VERSION"
    /\ call.smc = <<>> /\ call.arg # hyp_ffa_version
    /\ FFA_MAJOR_VERSION(call.arg) = 1

\* C8: before a version is negotiated, every call but FFA_VERSION, from the
\* host or a guest, is refused with an error, is not forwarded, issues no
\* SMC and changes no endpoint, transfer, reference count or page state.
C8_NegotiationGate ==
    [][(~has_version_negotiated /\ call'.op \notin {"version", "teardown"}) =>
           /\ call'.a0 = "FFA_ERROR" /\ call'.handled /\ call'.smc = <<>>
           /\ endp_buffers' = endp_buffers /\ hyp_buff_refcnt' = hyp_buff_refcnt
           /\ page_state' = page_state /\ pinned' = pinned /\ spmd' = spmd]_vars

\* C9: every call that is not forwarded and returns has the result written
\* to the caller's registers, unless it is a guest call that asked the run
\* loop to resolve a fault or top up memory and retry.
C9_StatusAlwaysWritten ==
    [][(call'.op # "teardown" /\ call'.handled /\ call'.fate = "returned"
        /\ ~(call'.vm # 0 /\ call'.exitreq)) => call'.written]_vars

\* C10 as written: when the secure side refuses a later fragment of a
\* transfer whose first fragment it accepted, a reclaim of the transfer is
\* sent to the secure side.
C10_RejectionTriggersReclaim ==
    [][(call'.op = "mem_frag_tx" /\ call'.fate = "returned"
        /\ spmd.xfers[call'.h].st = "partial"
        /\ "FFA_MEM_FRAG_TX" \in SmcNames(call') /\ call'.a0 = "FFA_ERROR") =>
           "FFA_MEM_RECLAIM" \in SmcNames(call')]_vars

\* C10: for a transfer whose first fragment the secure side accepted, a
\* later fragment the secure side refuses has its own ranges unshared, no
\* reclaim is sent and the secure side's error is returned; a later fragment
\* whose ranges cannot be shared sends a reclaim of the transfer instead of
\* the fragment and returns denied whatever the reclaim's result; either way
\* the pages of the earlier fragments stay shared and the result is an error.
C10_FragmentFailure ==
    [][(call'.op = "mem_frag_tx" /\ call'.vm = 0 /\ call'.fate = "returned"
        /\ spmd.xfers[call'.h].st = "partial"
        /\ call'.a0 \notin {"FFA_SUCCESS", "FFA_MEM_FRAG_RX"}) =>
           /\ call'.a0 = "FFA_ERROR" /\ call'.written
           /\ page_state' = page_state
           /\ PagesOfRanges(spmd.xfers[call'.h].ranges) \subseteq SharedFfa(page_state')
           /\ "FFA_MEM_FRAG_TX" \in SmcNames(call') =>
                  "FFA_MEM_RECLAIM" \notin SmcNames(call') /\ call'.a2 = "FFA_RET_DENIED"
           /\ "FFA_MEM_RECLAIM" \in SmcNames(call') =>
                  "FFA_MEM_FRAG_TX" \notin SmcNames(call') /\ call'.a2 = "FFA_RET_DENIED"]_vars

\* the secure side refused a later fragment and dropped the transfer; the
\* pages of its first fragment are still shared
C10_EarlierFragmentsStranded ==
    /\ call.op = "mem_frag_tx" /\ call.fate = "returned" /\ call.a0 = "FFA_ERROR"
    /\ "FFA_MEM_FRAG_TX" \in SmcNames(call) /\ "FFA_MEM_RECLAIM" \notin SmcNames(call)
    /\ spmd.xfers[call.h].st = "free"
    /\ call.named # {} /\ call.named \cap SharedFfa(page_state) = {}
    /\ SharedFfa(page_state) # {}

\* C11: a guest share or lend whose total page count differs from the sum of
\* the page counts of its ranges is refused with invalid parameters; no page
\* becomes shared, no translation is recorded and no transfer is linked.
C11_PageCountMismatchRejected ==
    [][(call'.op = "mem_xfer" /\ call'.vm # 0 /\ call'.arg.differ) =>
           /\ call'.fate = "returned"
           /\ call'.a0 = "FFA_ERROR" /\ call'.a2 = "FFA_RET_INVALID_PARAMETERS"
           /\ page_state' = page_state /\ orphans' = orphans
           /\ endp_buffers' = endp_buffers]_vars

\* a guest share whose page counts add up to its total only modulo 2^32 got
\* past the count check: it tried to share pages and was not refused with
\* invalid parameters
C11_WrappedCountAccepted ==
    /\ call.op = "mem_xfer" /\ call.vm # 0 /\ call.arg.differ
    /\ call.fate = "returned" /\ call.a2 # "FFA_RET_INVALID_PARAMETERS"

C13_PairMappedOrAbsent ==
    \A e \in Endpoints :
        LET b == endp_buffers[e] IN
        \/ /\ b.tx # 0 /\ b.rx # 0
           /\ page_state[b.tx] = "shared_hyp" /\ page_state[b.rx] = "shared_hyp"
           /\ {b.tx, b.rx} \subseteq pinned
        \/ /\ b.tx = 0 /\ b.rx = 0
           /\ \A p \in Pages : /\ page_state[PhysOf(e, p)] # "shared_hyp"
                                /\ PhysOf(e, p) \notin pinned

\* a guest's map failed and returned with no buffers recorded for the guest
\* while one of the guest's pages is still shared with the hypervisor
C13_GuestPageLeftShared ==
    /\ call.op = "rxtx_map" /\ call.vm # 0 /\ call.fate = "returned"
    /\ call.a0 = "FFA_ERROR"
    /\ endp_buffers[call.vm].tx = 0 /\ endp_buffers[call.vm].rx = 0
    /\ \E p \in Pages : page_state[PhysOf(call.vm, p)] = "shared_hyp"

\* C15: a map call of the host or a guest that fails or suspends returns
\* with the endpoint unmapped, no page left shared with or pinned by the
\* hypervisor that was not before, no unshare or unpin applied to a page
\* this call had not shared or pinned, and the reference count as it was.
C15_MapUnwinds ==
    [][(call'.op = "rxtx_map" /\ call'.fate = "returned" /\ ~call'.gated
        /\ call'.a0 = "FFA_ERROR") =>
           /\ endp_buffers' = endp_buffers
           /\ page_state' = page_state /\ pinned' = pinned
           /\ ~call'.stray
           /\ hyp_buff_refcnt' = hyp_buff_refcnt]_vars

\* a guest's map failed at the pin of its RX page, after the secure side
\* had the hypervisor's buffers mapped, and returned with both pages still
\* shared with the hypervisor
C15_PinFailureLeavesShared ==
    /\ call.op = "rxtx_map" /\ call.vm # 0 /\ call.fate = "returned"
    /\ call.a0 = "FFA_ERROR" /\ call.a2 = "-EINVAL" /\ ~call.stray
    /\ endp_buffers[call.vm].tx = 0
    /\ Cardinality({p \in Pages : page_state[PhysOf(call.vm, p)] = "shared_hyp"}) = 2

\* C14: a guest share or lend whose fragment length differs from its total
\* length is refused with invalid parameters, with no SMC and nothing
\* shared or recorded; a guest's fragment continuation is not handled by the
\* proxy, and no call of a guest makes the proxy send FFA_MEM_FRAG_TX or
\* share or record anything as a continuation.
C14_FragmentationHostOnly ==
    [][call'.vm # 0 =>
           /\ "FFA_MEM_FRAG_TX" \notin SmcNames(call')
           /\ (call'.op = "mem_xfer" /\ call'.arg.frag) =>
                  /\ call'.fate = "returned"
                  /\ call'.a0 = "FFA_ERROR" /\ call'.a2 = "FFA_RET_INVALID_PARAMETERS"
                  /\ call'.smc = <<>>
                  /\ page_state' = page_state /\ endp_buffers' = endp_buffers
                  /\ orphans' = orphans /\ spmd' = spmd
           /\ call'.op = "mem_frag_tx" =>
                  /\ ~call'.handled /\ call'.smc = <<>>
                  /\ page_state' = page_state /\ endp_buffers' = endp_buffers
                  /\ orphans' = orphans /\ spmd' = spmd]_vars

\* a guest asked to share the first fragment of a longer descriptor of
\* pages it could share, and was refused
C14_GuestFragmentRefused ==
    /\ call.op = "mem_xfer" /\ call.vm # 0 /\ call.arg.frag /\ ~call.arg.differ
    /\ call.a2 = "FFA_RET_INVALID_PARAMETERS" /\ call.smc = <<>>
    /\ call.named # {} /\ \A pa \in call.named : pa \in DOMAIN page_state /\ page_state[pa] = "owned"

\* C16: a share, a lend or a fragment continuation with a structural error
\* (a must-be-zero argument set, a length below the headers, not exactly one
\* endpoint, a composite offset of zero or past the fragment, a range list
\* that is not a whole number of entries, a range that is not a whole number
\* of pages) that the proxy answers is answered with invalid parameters, and
\* no page has changed state.
C16_StructuralErrorsRejectedFirst ==
    [][(/\ call'.op \in {"mem_xfer", "mem_frag_tx"}
        /\ call'.handled /\ ~call'.exitreq
        /\ call'.arg.malformed)
       => /\ call'.fate = "returned"
          /\ call'.a0 = "FFA_ERROR" /\ call'.a2 = "FFA_RET_INVALID_PARAMETERS"
          /\ page_state' = page_state]_vars

\* in a build with 16K pages the host asked to share a range of one whole
\* page followed by a range of a quarter of a page, and was denied
C16_MisalignedRangeDenied ==
    /\ PAGE_SIZE # FFA_PAGE_SIZE
    /\ call.op = "mem_xfer" /\ call.vm = 0 /\ call.arg.misaligned /\ ~call.arg.frag
    /\ call.named # {}
    /\ call.a0 = "FFA_ERROR" /\ call.a2 = "FFA_RET_DENIED"

\* C17: an FFA_VERSION call with a major number other than 1 is answered
\* not supported.  The call that completes the negotiation stores and
\* answers the lesser of the version asked for and the version held, which
\* is the lesser of 1.1 and the secure side's version at initialisation; a
\* lower minor number is taken only after the secure side was asked; a
\* call that asked the secure side and did not complete the negotiation is
\* answered not supported.
C17_ResolvedVersionIsMinimum ==
    [][call'.op = "version" =>
           LET req == call'.arg
               held == MinOf({FFA_VERSION_1_1, spmd.version})
           IN
           /\ FFA_MAJOR_VERSION(req) # 1 =>
                  /\ call'.a0 = "FFA_RET_NOT_SUPPORTED"
                  /\ has_version_negotiated' = has_version_negotiated
           /\ (~has_version_negotiated /\ has_version_negotiated') =>
                  /\ hyp_ffa_version' = MinOf({req, held})
                  /\ call'.a0 = "VERSION"
                  /\ req < held => "FFA_VERSION" \in SmcNames(call')
           /\ ("FFA_VERSION" \in SmcNames(call') /\ ~has_version_negotiated') =>
                  call'.a0 = "FFA_RET_NOT_SUPPORTED"]_vars

\* the negotiation completed on a version below both the version asked for
\* and the version held at initialisation
C17_NegotiatedBelowBoth ==
    /\ call.op = "version" /\ call.a0 = "VERSION" /\ has_version_negotiated
    /\ "FFA_VERSION" \notin SmcNames(call)
    /\ hyp_ffa_version < call.arg
    /\ hyp_ffa_version < MinOf({FFA_VERSION_1_1, spmd.version})

\* C18: every FFA_MEM_RECLAIM call comes to an end, whatever the secure
\* side answers to the retrieve request and to the fragment requests: the
\* loop that collects the fragments does not spin forever.
C18_ReclaimTerminates ==
    [][call'.op = "mem_reclaim" => call'.fate # "hang"]_vars

\* a reclaim asked for the next fragment, was answered with a fragment of
\* length 0, and asks again at the same offset, with the lock held
C18_ReclaimSpins ==
    /\ call.op = "mem_reclaim" /\ call.fate = "hang"
    /\ "FFA_MEM_FRAG_RX" \in SmcNames(call)
    /\ "FFA_MEM_RECLAIM" \notin SmcNames(call)

\* every transfer in a guest's list is one the secure side holds whole
ListedAreLive(endp, sp) ==
    \A g \in Guests : \A k \in 1 .. Len(endp[g].xfer_list) :
        sp.xfers[endp[g].xfer_list[k].ffa_handle].st = "live"

\* C19: a transfer list grows only by a guest's share or lend that the
\* secure side answered with success, by one transfer at the head of the
\* caller's own list, under the handle the secure side returned; and every
\* transfer in a list is one the secure side acknowledged and still holds.
C19_LinkedAfterAcknowledged ==
    [][/\ \A g \in Guests :
              Len(endp_buffers'[g].xfer_list) > Len(endp_buffers[g].xfer_list) =>
                  /\ call'.op = "mem_xfer" /\ call'.vm = g /\ call'.a0 = "FFA_SUCCESS"
                  /\ "FFA_MEM_XFER" \in SmcNames(call')
                  /\ Tail(endp_buffers'[g].xfer_list) = endp_buffers[g].xfer_list
                  /\ Head(endp_buffers'[g].xfer_list).ffa_handle = call'.h
                  /\ spmd.xfers[call'.h].st = "free" /\ spmd'.xfers[call'.h].st = "live"
                  /\ \A e \in Endpoints \ {g} : endp_buffers'[e] = endp_buffers[e]
       /\ ListedAreLive(endp_buffers', spmd')]_vars

\* a guest's list holds a transfer that the secure side has released on a
\* call of the host
C19_ListedButReleased ==
    /\ ~ListedAreLive(endp_buffers, spmd)
    /\ call.vm = 0 /\ GuestHolds(call.h) /\ "FFA_MEM_RECLAIM" \in SmcNames(call)

\* C20: a reclaim call that did not get success from the secure side for
\* FFA_MEM_RECLAIM itself (the retrieve request, a fragment request, a check
\* of the response or the reclaim failed) leaves the shared pages, the
\* transfer lists and the translations as they were.
C20_ReclaimFrame ==
    [][(/\ call'.op = "mem_reclaim"
        /\ ~("FFA_MEM_RECLAIM" \in SmcNames(call') /\ call'.a0 = "FFA_SUCCESS"))
       => /\ page_state' = page_state
          /\ endp_buffers' = endp_buffers]_vars

\* the caller asked to reclaim a transfer it holds, with pages shared; the
\* secure side gave the descriptor and then refused the reclaim
C20_ReclaimRefused ==
    /\ call.op = "mem_reclaim" /\ call.fate = "returned"
    /\ "FFA_MEM_RECLAIM" \in SmcNames(call) /\ call.a0 = "FFA_ERROR"
    /\ HoldsLive(call.vm, call.h)
    /\ PagesOfRanges(spmd.xfers[call.h].ranges) # {}
    /\ \A pa \in PagesOfRanges(spmd.xfers[call.h].ranges) : page_state[pa] = "shared_ffa"

\* C21: when ffa_guest_share_ranges fails at a page of a guest's share or
\* lend, the pages it shared before that one are unshared and their
\* translations removed before the call returns or suspends: no page has
\* changed state, no translation is left behind, nothing was unshared that
\* was not shared, and no SMC was sent.
C21_GuestShareRollsBack ==
    [][(call'.op = "mem_xfer" /\ call'.vm # 0 /\ call'.undone >= 0) =>
           /\ call'.fate = "returned"
           /\ call'.a0 = "FFA_ERROR" /\ call'.smc = <<>>
           /\ ~call'.stray
           /\ page_state' = page_state
           /\ orphans' = orphans
           /\ endp_buffers' = endp_buffers]_vars

\* a guest's share failed at its second page, after the first was shared
C21_SecondPageFailed ==
    /\ call.op = "mem_xfer" /\ call.vm # 0 /\ call.undone >= 1
    /\ \E pa \in call.named : pa \in DOMAIN page_state /\ page_state[pa] = "owned"

\* C22: the caller of a share, lend or reclaim receives success only when
\* the secure side gave the answers the protocol expects: for a share or
\* lend, success for a whole descriptor, which the secure side then holds
\* under the returned handle; for a reclaim, success for FFA_MEM_RECLAIM
\* itself, after which the secure side holds the transfer no more.  A call
\* answered with another op-code changes no transfer list and no page.
C22_UnexpectedOpcodeFails ==
    [][call'.op \in {"mem_xfer", "mem_reclaim"} =>
           LET expected ==
                   IF call'.op = "mem_xfer"
                   THEN /\ "FFA_MEM_XFER" \in SmcNames(call')
                        /\ call'.h \in Handles
                        /\ spmd.xfers[call'.h].st = "free"
                        /\ spmd'.xfers[call'.h].st =
                               IF call'.arg.frag THEN "partial" ELSE "live"
                   ELSE /\ "FFA_MEM_RECLAIM" \in SmcNames(call')
                        /\ spmd.xfers[call'.h].st = "live"
                        /\ spmd'.xfers[call'.h].st = "free"
           IN
           /\ call'.a0 = "FFA_SUCCESS" => expected /\ ~(call'.op = "mem_xfer" /\ call'.arg.frag)
           /\ (SmcNames(call') # {} /\ ~expected /\ call'.a0 # "FFA_ERROR") =>
                  /\ page_state' = page_state
                  /\ \A e \in Endpoints :
                         endp_buffers'[e].xfer_list = endp_buffers[e].xfer_list]_vars

\* the host sent the first fragment of a longer descriptor, the secure side
\* answered FFA_SUCCESS where FFA_MEM_FRAG_RX is due and recorded nothing;
\* the pages are unshared again and the host is told success
C22_FragmentAnsweredSuccess ==
    /\ call.op = "mem_xfer" /\ call.vm = 0 /\ call.arg.frag /\ call.fate = "returned"
    /\ call.a0 = "FFA_SUCCESS"
    /\ \A h \in Handles : spmd.xfers[h].st = "free"
    /\ call.named # {} /\ \A pa \in call.named : page_state[pa] = "owned"

----------------------------------------------------------------------------
\* C23: What a guest's share or lend writes into the scratch region and
\* copies back into the hypervisor's TX buffer (the headers, the composite
\* header and the one-page entries) ends within one message-box page, and
\* every fragment a reclaim copies into the reassembly buffer ends within
\* the buffer's length.
C23_CopiesWithinBounds ==
    /\ (call.op = "mem_xfer" /\ call.vm # 0) => call.ext <= KVM_FFA_MBOX_NR_PAGES * PAGE_SIZE
    /\ call.op = "mem_reclaim" => call.ext <= FFA_DESC_BUF_LEN

\* a guest's share that passed every check, was accepted by the secure side
\* and wrote past the end of the page
C23_EntriesPastThePage ==
    /\ call.op = "mem_xfer" /\ call.vm # 0 /\ call.fate = "returned"
    /\ call.a0 = "FFA_SUCCESS" /\ ~call.arg.malformed /\ ~call.arg.differ
    /\ call.ext > KVM_FFA_MBOX_NR_PAGES * PAGE_SIZE
    /\ \A pa \in call.named : page_state[pa] = "shared_ffa"

----------------------------------------------------------------------------
\* C24: FFA_FN64_RXTX_MAP is sent to the secure side only by a call that
\* finds the reference count at 0, and by every map that takes it from 0 to
\* 1, once; FFA_RXTX_UNMAP is sent only by a call that leaves the count at
\* 0, and by every unmap that takes it from 1 to 0, once.  A share, lend or
\* reclaim sends neither and leaves the count as it is.
C24_SecureMapOnEdges ==
    [][call'.fate = "returned" =>
           LET sent(fn) == Cardinality({i \in 1 .. Len(call'.smc) : call'.smc[i].fn = fn})
               maps == sent("FFA_FN64_RXTX_MAP")
               unmaps == sent("FFA_RXTX_UNMAP")
           IN
           /\ maps <= 1 /\ unmaps <= 1
           /\ maps = 1 => call'.op = "rxtx_map" /\ hyp_buff_refcnt = 0
           /\ unmaps = 1 => call'.op \in {"rxtx_map", "rxtx_unmap"} /\ hyp_buff_refcnt' = 0
           /\ (call'.op = "rxtx_map" /\ hyp_buff_refcnt = 0 /\ hyp_buff_refcnt' = 1) => maps = 1
           /\ (call'.op = "rxtx_unmap" /\ hyp_buff_refcnt = 1 /\ hyp_buff_refcnt' = 0)
                  => unmaps = 1
           /\ call'.op \in {"mem_xfer", "mem_reclaim"} => hyp_buff_refcnt' = hyp_buff_refcnt]_vars

\* the host has mapped its buffers, lent a page and reclaimed it: the count
\* is 1 and the secure side holds the one mapping
C24_CountStaysOne ==
    /\ call.op = "mem_reclaim" /\ call.vm = 0 /\ call.fate = "returned"
    /\ call.a0 = "FFA_SUCCESS" /\ "FFA_MEM_RECLAIM" \in SmcNames(call)
    /\ hyp_buff_refcnt = 1 /\ spmd.mapped
    /\ endp_buffers[0].tx # 0 /\ \A g \in Guests : endp_buffers[g].tx = 0

----------------------------------------------------------------------------
\* C25: Whenever an endpoint's message boxes are recorded as mapped, the
\* secure side holds a mapping of the hypervisor's pair.
C25_MappedMeansSecureMapped ==
    (\E e \in Endpoints : endp_buffers[e].tx # 0) => spmd.mapped

\* a map that succeeded without a call to the secure side, while the secure
\* side holds no mapping: the count was left at 1 by a map it had refused
C25_MappedOnRefusedEpoch ==
    /\ call.op = "rxtx_map" /\ call.fate = "returned" /\ call.a0 = "FFA_SUCCESS"
    /\ call.smc = <<>>
    /\ endp_buffers[call.vm].tx # 0
    /\ ~spmd.mapped

----------------------------------------------------------------------------
\* C26: When a guest's share or lend returns, the ffa_mem_transfer allocated
\* for the call is in the guest's transfer list if the call succeeded and
\* has been freed if it did not.
C26_TransferLinkedOrFreed ==
    (call.op = "mem_xfer" /\ call.vm # 0 /\ call.fate = "returned") =>
        /\ ~call.leak
        /\ call.a0 = "FFA_SUCCESS" => call.h \in HandlesOf(endp_buffers[call.vm])

\* the secure side refused a guest's share after its pages were shared: the
\* call returned the error with the transfer neither linked nor freed
C26_RefusedShareLeaks ==
    /\ call.op = "mem_xfer" /\ call.vm # 0 /\ call.fate = "returned"
    /\ call.a0 = "FFA_ERROR" /\ "FFA_MEM_XFER" \in SmcNames(call)
    /\ call.named # {} /\ call.leak
    /\ endp_buffers[call.vm].xfer_list = <<>>

----------------------------------------------------------------------------
\* C27: When the teardown of a guest returns 0, the guest has no transfer
\* and no translation left, none of its pages is shared with the secure
\* side, and its message boxes are unmapped.
C27_TeardownLeavesNothing ==
    (call.op = "teardown" /\ call.fate = "returned" /\ call.arg = FFA_RET_SUCCESS) =>
        /\ endp_buffers[call.vm].xfer_list = <<>>
        /\ \A p \in Pages : page_state[PhysOf(call.vm, p)] # "shared_ffa"
                             /\ PhysOf(call.vm, p) \notin orphans
        /\ endp_buffers[call.vm].tx = 0 /\ endp_buffers[call.vm].rx = 0

\* a guest that shared a page and unmapped its buffers was torn down: the
\* teardown returned 0 without a call to the secure side, the transfer is
\* still in the list and the page still shared
C27_TransferOutlivesGuest ==
    /\ call.op = "teardown" /\ call.fate = "returned" /\ call.arg = FFA_RET_SUCCESS
    /\ call.smc = <<>>
    /\ endp_buffers[call.vm].tx = 0 /\ endp_buffers[call.vm].rx = 0
    /\ endp_buffers[call.vm].xfer_list # <<>>
    /\ \E p \in Pages : page_state[PhysOf(call.vm, p)] = "shared_ffa"

----------------------------------------------------------------------------
\* C28: An FFA_VERSION call that is answered FFA_RET_NOT_SUPPORTED leaves
\* has_version_negotiated and hyp_ffa_version as they were before the call.
C28_RejectedNegotiationUntouched ==
    [][(call'.op = "version" /\ call'.fate = "returned"
        /\ call'.a0 = "FFA_RET_NOT_SUPPORTED") =>
           /\ has_version_negotiated' = has_version_negotiated
           /\ hyp_ffa_version' = hyp_ffa_version]_vars

\* a request for 1.0 that the secure side let through and whose probe of
\* the secure side then failed: not negotiated, and the stored version is
\* no longer the one resolved at initialisation
C28_VersionLoweredByFailure ==
    /\ call.op = "version" /\ call.fate = "returned" /\ call.a0 = "FFA_RET_NOT_SUPPORTED"
    /\ "FFA_ID_GET" \in SmcNames(call)
    /\ ~has_version_negotiated
    /\ spmd.version # FFA_VERSION_1_0
    /\ hyp_ffa_version = FFA_VERSION_1_0

----------------------------------------------------------------------------
\* C29: Whatever calls run at the same time, a CPU that is about to read or
\* write sp_ids or num_registered_sp_ids holds hyp_buffers.lock.
C29_PartitionListUnderLock ==
    \A c \in Cpus : (InCall(c) /\ AtStep(c).res = "sp_ids") => hyp_buffers_lock = c

\* one CPU, holding the lock, is filling sp_ids in a partition-info call
\* while another, in a map call, reads the list without the lock
C29_ReadWhilePopulated ==
    \E c, d \in Cpus :
        /\ cpu[c].op = "part_get" /\ AtStep(c).res = "sp_ids" /\ hyp_buffers_lock = c
        /\ cpu[d].op = "rxtx_map" /\ AtStep(d).res = "sp_ids"

====
